---- MODULE Spec2Model ----
(***************************************************************************)
(* A model of daemon/repo-mgr.c: the repository manager (registry,        *)
(* persistent tables, purge and startup loading) and the per-repository   *)
(* operations (add, commit, checkout, reset, revert).                     *)
(***************************************************************************)
EXTENDS Integers, Sequences, FiniteSets, TLC

\* ------------------------------------------------------------------ values

\* Repository ids.  The program uses 36-character UUIDs; the model keeps the
\* only things the code does with them: strcmp order and strncmp prefix match.
RepoIds == {<<"a", "a">>, <<"a", "b">>, <<"b", "a">>}

\* The repository followed by the specifications that look at one repository
\* in detail.
OneRepo == {<<"a", "a">>}

\* Arguments given to the prefix lookups.
Prefixes == {<<"a">>, <<"b">>, <<"a", "b">>, <<"b", "b">>}

BranchNames == {"local", "master"}

\* Directory contents: what a worktree, an index or a commit's root holds.
Trees == {"empty", "t0", "t1"}

\* The commit store holds at most this many commits.
MaxCommits == 2

NoBranch == "none"

NoRepo == <<>>

NoIndex == "none"

NoCommit == 0

CharCode(c) == IF c = "a" THEN 1 ELSE 2

\* g_strcmp0(a, b) < 0
StrLess(a, b) ==
    \E k \in 1..(Len(a) + 1) :
        /\ \A i \in 1..(k - 1) : i <= Len(b) /\ a[i] = b[i]
        /\ \/ k = Len(a) + 1 /\ k <= Len(b)
           \/ k <= Len(a) /\ k <= Len(b) /\ CharCode(a[k]) < CharCode(b[k])

\* strncmp(p, id, strlen(p)) == 0
HasPrefix(id, p) == Len(p) <= Len(id) /\ SubSeq(id, 1, Len(p)) = p

\* strlen(id) >= 37: longer than any repository id
IdTooLong(id) == \A r \in RepoIds : Len(id) > Len(r)

\* ------------------------------------------------------------- encryption

\* Passphrases.
Passwds == {<<"p">>, <<"q">>}

\* repo->passwd == NULL
NoPasswd == <<>>

\* enc_key of a SeafRepo from g_new0: never derived
NoKey == <<>>

\* magic of a SeafRepo from g_new0, or of a commit that has none
NoMagic == <<>>

\* Encryption versions: 0 is the legacy one.
EncVersions == {0, 1}

CURRENT_ENC_VERSION == 1

\* seafile_generate_enc_key: the key derived from data under a version.  The
\* derivation is one-to-one in its data for a version, and the versions
\* derive by different algorithms: what is known of a key is the version and
\* the data it came from.
seafile_generate_enc_key(data, version) == <<version, data>>

\* rawdata_to_hex: the 32 hex characters of a 16-byte key
rawdata_to_hex(key) == <<"hex", key>>

\* hex_to_rawdata: the bytes of a hex string
hex_to_rawdata(hex) == IF hex = <<>> THEN NoKey ELSE hex[2]

\* The encryption fields of a commit of a repository that is not encrypted.
NoEnc == [encrypted |-> FALSE, enc_version |-> 0, magic |-> NoMagic]

\* seaf_repo_from_commit: encrypted is copied; the version only when
\* encrypted, the magic only when the version is 1 or more.
seaf_repo_from_commit(r, commit) ==
    [r EXCEPT !.encrypted = commit.enc.encrypted,
              !.enc_version = IF commit.enc.encrypted
                              THEN commit.enc.enc_version ELSE @,
              !.magic = IF commit.enc.encrypted /\ commit.enc.enc_version >= 1
                        THEN commit.enc.magic ELSE @]

\* seaf_repo_to_commit: the encryption fields a new commit gets.
seaf_repo_to_commit(r) ==
    [encrypted |-> r.encrypted,
     enc_version |-> IF r.encrypted THEN r.enc_version ELSE 0,
     magic |-> IF r.encrypted /\ r.enc_version >= 1 THEN r.magic ELSE NoMagic]

\* ------------------------------------------------------------------- state

VARIABLES
    repo_tree,    \* priv->repo_tree: the ids of the repositories in memory
    repo,         \* the SeafRepo of each id: its fields in memory
    tasks,        \* priv->checkout_tasks_hash: the CheckoutTask of each id
    watched,      \* the repositories the worktree monitor watches
    db,           \* repo.db: the tables Repo, DeletedRepo, RepoBranch, ...
    index_file,   \* <index_dir>/<repo-id>: the tree the index file records
    branch_db,    \* the branch store: the commit of each named branch
    commits,      \* the commit store: commit id i is commits[i]
    wt,           \* the worktree directory of each repository, on disk
    purge,        \* the position of a running remove_repo_ondisk
    phase,        \* "running", or the position of load_repos at startup
    todo,         \* rows still to visit in the current load_repos loop
    add,          \* the position of a running seaf_repo_index_add
    gc_started,   \* gc_is_started()
    interrupted,  \* ids whose purge was cut short by a crash (history)
    last,         \* the last call made and what it returned
    jobs,         \* the job manager: the recover_merge_job of each id
    sync_tasks,   \* the sync manager: the current sync task of each id
    cdata,        \* the CheckoutData of the checkout jobs not yet done
    db_lock,      \* priv->db_lock: the call that holds it, or "none"
    calls,        \* the calls of verify_tmp_token in progress, by caller
    issued,       \* the tokens gen_uuid gave, and how often each was accepted
    tree,         \* the files and directories of the worktree, by path
    cache,        \* the entries of the index file, by name
    wt_name       \* repo->worktree: the path of the worktree, as it was given

job_vars == <<jobs, sync_tasks, cdata>>

token_vars == <<db_lock, calls, issued>>

walk_vars == <<tree, cache, wt_name>>

vars == <<repo_tree, repo, tasks, watched, db, index_file, branch_db, commits,
          wt, purge, phase, todo, add, gc_started, interrupted, last,
          job_vars, token_vars, walk_vars>>

\* A property that has no row, a string that is NULL.
NoValue == "none"

\* The keys of RepoProperty whose value the manager reads.
ValuedKeys == {"auto-sync", "net-browsable", "relay-id"}

\* The values given for auto-sync and net-browsable: "other" is any string
\* that is neither "true" nor "false".
FlagValues == {"true", "false", "other"}

\* The peer ids given for relay-id: the id of a peer with the role MyRelay,
\* of a peer without it, of no peer, a string of 40 characters that are not
\* all hexadecimal, and a string of 39.
PeerIds == {"relay", "peer", "stranger", "nothex", "short"}

strlen(peer_id) == IF peer_id = "short" THEN 39 ELSE 40

IsHex(peer_id) == peer_id # "nothex"

\* ccnet_get_peer: the peers ccnet knows; their ids are 40 hexadecimal
\* characters.
ccnet_get_peer(peer_id) == peer_id \in {"relay", "peer"}

\* The peers whose role_list has "MyRelay".
MyRelay == {"relay"}

\* is_peer_relay without the test of the role list.
is_peer_relay_any_role(peer_id) == ccnet_get_peer(peer_id)

\* is_peer_relay: the peer is known and has the role MyRelay.
is_peer_relay(peer_id) == ccnet_get_peer(peer_id) /\ peer_id \in MyRelay

\* seaf_repo_new: worktree_invalid = TRUE, auto_sync = 1, nothing else set.
seaf_repo_new ==
    [delete_pending |-> FALSE, head |-> NoBranch, head_commit |-> NoCommit,
     worktree |-> FALSE, worktree_invalid |-> TRUE, auto_sync |-> TRUE,
     index_corrupted |-> FALSE, lock |-> "free", encrypted |-> FALSE,
     enc_version |-> 0, magic |-> NoMagic, enc_key |-> NoKey,
     passwd |-> NoPasswd, net_browsable |-> FALSE, relay_id |-> NoValue]

NoTask == [state |-> "none", success |-> FALSE]

\* CheckoutData: cdata->task of the job that tasks follows has been freed or
\* not, and the same for each job scheduled after it.
NoData == [freed |-> FALSE, queue |-> <<>>]

NoPurge == [id |-> NoRepo, pc |-> 0, caller |-> "none"]

NoAdd == [id |-> NoRepo, pc |-> "idle"]

\* The callers that verify temporary tokens at the same time.
Callers == {"c1", "c2"}

NoVerify == [pc |-> "idle", id |-> <<>>, peer_id |-> "none", token |-> 0]

\* Nothing scheduled, no sync task, no call of verify_tmp_token in progress.
NoJobs ==
    /\ jobs = [id \in RepoIds |-> "none"]
    /\ sync_tasks = [id \in RepoIds |-> "none"]
    /\ cdata = [id \in RepoIds |-> NoData]
    /\ db_lock = "none"
    /\ calls = [c \in Callers |-> NoVerify]

\* What a call returned.  ret is "ok" or "fail"; path names the exit taken;
\* err is the error it set; emitted: it emitted repo-committed; live counts
\* the in-memory indexes it left undiscarded; stored: it wrote blocks or file
\* objects to the store; found and exists are what a lookup gave; branch: the
\* branch it merged; locked: it ran holding repo->lock; passwd: the
\* passphrase it was given; notify: the notifications it published; rwlock:
\* how it held priv->lock while it used the repository map ("none": it used
\* the map without the lock; "unused": it did not touch the map).
Result(op, path, ret) ==
    [op |-> op, path |-> path, ret |-> ret, err |-> "none", emitted |-> FALSE,
     live |-> 0, stored |-> FALSE, found |-> {}, exists |-> FALSE,
     branch |-> NoBranch, locked |-> FALSE, passwd |-> NoPasswd,
     notify |-> {}, rwlock |-> "unused"]

NoCall == Result("none", "none", "none")

EmptyDb ==
    [Repo |-> {}, DeletedRepo |-> {},
     RepoBranch |-> [id \in RepoIds |-> NoBranch],
     RepoProperty |-> {}, RepoPasswd |-> {}, RepoKeys |-> {}, MergeInfo |-> {},
     in_merge |-> {}, RepoTmpToken |-> {},
     RepoLanToken |-> [id \in RepoIds |-> <<"NULL">>],
     passwd |-> [id \in RepoIds |-> NoPasswd],
     key |-> [id \in RepoIds |-> NoMagic],
     value |-> [row \in RepoIds \X ValuedKeys |-> NoValue]]

\* -------------------------------------------------------- the index walk

\* File names and paths are strings of bytes: 47 is '/', 32 the space, 42
\* and 63 the wildcards '*' and '?' of a pattern.
\* ignore_table: "*~", "*#", "*.tmp", "*.TMP", "~$*.doc", "~$*.docx",
\* "~$*.xls", "~$*.xlsx", "~$*.ppt", "~$*.pptx", "Thumbs.db", ".DS_Store".
ignore_table ==
    << <<42, 126>>,
       <<42, 35>>,
       <<42, 46, 116, 109, 112>>,
       <<42, 46, 84, 77, 80>>,
       <<126, 36, 42, 46, 100, 111, 99>>,
       <<126, 36, 42, 46, 100, 111, 99, 120>>,
       <<126, 36, 42, 46, 120, 108, 115>>,
       <<126, 36, 42, 46, 120, 108, 115, 120>>,
       <<126, 36, 42, 46, 112, 112, 116>>,
       <<126, 36, 42, 46, 112, 112, 116, 120>>,
       <<84, 104, 117, 109, 98, 115, 46, 100, 98>>,
       <<46, 68, 83, 95, 83, 116, 111, 114, 101>> >>

\* g_pattern_match_string: '*' stands for any bytes, '?' for any one byte.
RECURSIVE g_pattern_match_string(_, _)
g_pattern_match_string(spec, s) ==
    IF spec = <<>> THEN s = <<>>
    ELSE IF Head(spec) = 42
    THEN \/ g_pattern_match_string(Tail(spec), s)
         \/ s # <<>> /\ g_pattern_match_string(spec, Tail(s))
    ELSE /\ s # <<>>
         /\ Head(spec) = 63 \/ Head(spec) = Head(s)
         /\ g_pattern_match_string(Tail(spec), Tail(s))

\* illegals: \ / : * ? " < > | \b \t
illegals == {92, 47, 58, 42, 63, 34, 60, 62, 124, 8, 9}

\* should_ignore: the name matches an ignore pattern, or holds an illegal
\* byte or a byte from 1 to 31.
should_ignore(filename) ==
    \/ \E i \in DOMAIN ignore_table :
          g_pattern_match_string(ignore_table[i], filename)
    \/ \E i \in DOMAIN filename : filename[i] \in illegals
    \/ \E i \in DOMAIN filename : filename[i] \in 1..31

\* has_trailing_space: path[len - 1] == ' '.  For the empty path this reads
\* the byte in front of the string, which is not the string's: ub tells
\* whether that byte is a space.
has_trailing_space(path, ub) ==
    IF Len(path) = 0 THEN ub ELSE path[Len(path)] = 32

\* g_build_path ("/", path, dname, NULL): an empty element is left out, and
\* where the two meet the slashes that end path are replaced by one.
RECURSIVE g_build_path(_, _)
g_build_path(path, dname) ==
    IF path = <<>> THEN dname
    ELSE IF dname = <<>> THEN path
    ELSE IF Len(path) > 1 /\ path[Len(path)] = 47
    THEN g_build_path(SubSeq(path, 1, Len(path) - 1), dname)
    ELSE path \o <<47>> \o dname

\* The path lies under dir: it is dir or a path inside the directory dir.
Under(p, dir) == p = dir \/ dir = <<>> \/ HasPrefix(p, dir \o <<47>>)

\* The names a directory of the worktree may hold: a, ab and a~ (ignored) in
\* the root; ":" (illegal), b and "b " (trailing space) in a.
RootNames == << <<97>>, <<97, 98>>, <<97, 126>> >>

SubNames == << <<58>>, <<98>>, <<98, 32>> >>

\* The paths of the worktree, relative to its root; the empty path is the
\* root itself.
WtPaths ==
    {<<>>} \cup {RootNames[i] : i \in DOMAIN RootNames}
           \cup {g_build_path(<<97>>, SubNames[i]) : i \in DOMAIN SubNames}

\* Worktrees: the root is a directory, a is a file, a directory or missing,
\* every other path a file or missing; a path in a exists only when a is a
\* directory.  "v1" is a regular file with its present contents.
Worktrees ==
    {t \in [WtPaths -> {"none", "dir", "v1"}] :
        /\ t[<<>>] = "dir"
        /\ \A p \in WtPaths \ {<<>>, <<97>>} : t[p] # "dir"
        /\ \A i \in DOMAIN SubNames :
              t[g_build_path(<<97>>, SubNames[i])] # "none" => t[<<97>>] = "dir"}

\* Index files: an entry is a file entry, recording the present contents
\* "v1" or older contents "v0", or the sentinel entry of an empty directory.
Caches ==
    {c \in [WtPaths -> {"none", "dir", "v0", "v1"}] :
        /\ c[<<97>>] \in {"none", "dir"}
        /\ c[<<97, 98>>] \in {"none", "v1"}
        /\ c[<<97, 47, 98>>] \in {"none", "v0", "v1"}
        /\ \A p \in WtPaths \ {<<97>>, <<97, 98>>, <<97, 47, 98>>} :
              c[p] = "none"}

\* No files: the worktree is the empty directory and the index is empty.
\* The directory of the worktree is /w; it is given as "/w" or as "/w/".
WorktreeNames == {<<47, 119>>, <<47, 119, 47>>}

NoFiles ==
    /\ tree = [p \in WtPaths |-> IF p = <<>> THEN "dir" ELSE "none"]
    /\ cache = [p \in WtPaths |-> "none"]
    /\ wt_name = <<47, 119>>

\* seaf_repo_manager_new and the first seaf_repo_manager_init: nothing loaded.
Init ==
    /\ repo_tree = {}
    /\ repo = [id \in RepoIds |-> seaf_repo_new]
    /\ tasks = [id \in RepoIds |-> NoTask]
    /\ watched = {}
    /\ db = EmptyDb
    /\ index_file = [id \in RepoIds |-> NoIndex]
    /\ branch_db = [id \in RepoIds |-> [b \in BranchNames |-> NoCommit]]
    /\ commits = <<>>
    /\ wt = [id \in RepoIds |-> "none"]
    /\ purge = NoPurge
    /\ phase = "running"
    /\ todo = {}
    /\ add = NoAdd
    /\ gc_started = FALSE
    /\ interrupted = {}
    /\ last = NoCall
    /\ NoJobs
    /\ issued = <<>>
    /\ NoFiles

Idle == phase = "running" /\ purge = NoPurge

\* seaf_repo_check_worktree(repo) == 0, for the SeafRepo fields r
seaf_repo_check_worktree(r, id) == r.worktree /\ wt[id] # "none"

\* send_wktree_notification: what it publishes; nothing when
\* seaf_repo_check_worktree fails.
send_wktree_notification(r, id, addordel) ==
    IF ~seaf_repo_check_worktree(r, id) THEN {}
    ELSE IF addordel THEN {"repo.setwktree"} ELSE {"repo.unsetwktree"}

\* ------------------------------------------------------- registry changes

\* seaf_repo_manager_add_repo: INSERT INTO Repo (result ignored), avl_insert.
seaf_repo_manager_add_repo(id, sql_ok) ==
    /\ Idle
    /\ id \notin repo_tree
    /\ db' = IF sql_ok THEN [db EXCEPT !.Repo = @ \cup {id}] ELSE db
    /\ repo_tree' = repo_tree \cup {id}
    /\ repo' = [repo EXCEPT ![id] = seaf_repo_new]
    /\ interrupted' = interrupted \ {id}
    /\ last' = [Result("add_repo", "done", "ok") EXCEPT
                  !.rwlock = "wrlock",
                  !.notify = send_wktree_notification(seaf_repo_new, id, TRUE)]
    /\ UNCHANGED <<walk_vars, job_vars, token_vars, tasks, watched, index_file, branch_db, commits, wt,
                   purge, phase, todo, add, gc_started>>

\* seaf_repo_manager_mark_repo_deleted: the tombstone, then delete_pending.
\* The INSERT fails when the store fails or the tombstone is already there.
seaf_repo_manager_mark_repo_deleted(id, sql_ok) ==
    /\ Idle
    /\ id \in repo_tree
    /\ IF sql_ok /\ id \notin db.DeletedRepo
       THEN /\ db' = [db EXCEPT !.DeletedRepo = @ \cup {id}]
            /\ repo' = [repo EXCEPT ![id].delete_pending = TRUE]
            /\ last' = [Result("mark_repo_deleted", "done", "ok") EXCEPT
                          !.notify = send_wktree_notification(repo[id], id,
                                                              FALSE)]
       ELSE /\ UNCHANGED <<db, repo>>
            /\ last' = Result("mark_repo_deleted", "sql_failed", "fail")
    /\ UNCHANGED <<walk_vars, job_vars, token_vars, repo_tree, tasks, watched, index_file, branch_db, commits,
                   wt, purge, phase, todo, add, gc_started, interrupted>>

\* ------------------------------------------------------------------ purge

\* remove_repo_ondisk deletes in this order; the Repo row is its commit point.
PurgeOrderRepoLast ==
    <<"DeletedRepo", "index", "branch", "RepoProperty", "RepoPasswd",
      "RepoKeys", "MergeInfo", "Repo">>

PurgeOrder ==
    <<"Repo", "DeletedRepo", "index", "branch", "RepoProperty", "RepoPasswd",
      "RepoKeys", "MergeInfo">>

PurgeDone == Len(PurgeOrder) + 1

\* The branches seaf_branch_manager_get_branch_list returns for a repository.
BranchList(id) == {b \in BranchNames : branch_db[id][b] # NoCommit}

\* The tables after one statement of remove_repo_ondisk.  The "branch" step
\* unmaps and deletes each branch the branch store lists, and only those.
DbAfterDelete(tbl, id) ==
    CASE tbl = "Repo" -> [db EXCEPT !.Repo = @ \ {id}]
      [] tbl = "DeletedRepo" -> [db EXCEPT !.DeletedRepo = @ \ {id}]
      [] tbl = "branch" ->
            [db EXCEPT !.RepoBranch[id] =
                IF @ \in BranchList(id) THEN NoBranch ELSE @]
      [] tbl = "RepoProperty" ->
            [db EXCEPT !.RepoProperty = {row \in @ : row[1] # id},
                       !.value = [row \in DOMAIN @ |->
                                    IF row[1] = id THEN NoValue ELSE @[row]]]
      [] tbl = "RepoPasswd" -> [db EXCEPT !.RepoPasswd = @ \ {id},
                                          !.passwd[id] = NoPasswd]
      [] tbl = "RepoKeys" -> [db EXCEPT !.RepoKeys = @ \ {id},
                                        !.key[id] = NoMagic]
      [] tbl = "MergeInfo" -> [db EXCEPT !.MergeInfo = @ \ {id},
                                         !.in_merge = @ \ {id}]
      [] OTHER -> db

\* pthread_mutex_unlock (&priv->db_lock) by the thread me: the holders the
\* mutex can have afterwards.  Unlocking a mutex the thread does not hold is
\* undefined: the mutex is released or left as it is.
pthread_mutex_unlock(holder, me) ==
    IF holder = me THEN {"none"} ELSE {holder, "none"}

\* One statement of remove_repo_ondisk.  Only the DELETE FROM Repo is checked:
\* when it fails the function leaves (goto out) having deleted nothing more.
\* Repo and DeletedRepo are deleted from without db_lock; branch_repo_unmap
\* and del_repo_property take and release it; it is then taken for the last
\* three tables and released at out, which the failed DELETE FROM Repo
\* reaches without holding it.
remove_repo_ondisk_step(sql_ok) ==
    /\ purge.pc \in 1..Len(PurgeOrder)
    /\ LET tbl == PurgeOrder[purge.pc]
           id == purge.id
       IN /\ tbl \in {"branch", "RepoProperty", "RepoPasswd"} => db_lock = "none"
          /\ IF tbl = "RepoPasswd" THEN db_lock' = "purge"
             ELSE IF tbl = "MergeInfo" \/ (tbl = "Repo" /\ ~sql_ok)
             THEN db_lock' \in pthread_mutex_unlock(db_lock, "purge")
             ELSE db_lock' = db_lock
          /\ IF tbl = "Repo" /\ ~sql_ok
             THEN /\ purge' = [purge EXCEPT !.pc = PurgeDone]
                  /\ UNCHANGED <<db, index_file, branch_db>>
             ELSE /\ purge' = [purge EXCEPT !.pc = @ + 1]
                  /\ db' = DbAfterDelete(tbl, id)
                  /\ index_file' =
                       IF tbl = "index" THEN [index_file EXCEPT ![id] = NoIndex]
                       ELSE index_file
                  /\ branch_db' =
                       IF tbl = "branch"
                       THEN [branch_db EXCEPT ![id] = [b \in BranchNames |-> NoCommit]]
                       ELSE branch_db
    /\ last' = NoCall
    /\ UNCHANGED <<walk_vars, job_vars, calls, issued, repo_tree, repo, tasks, watched,
                   commits, wt, phase, todo, add, gc_started, interrupted>>

\* seaf_repo_manager_del_repo: remove_repo_ondisk, then avl_delete and free.
seaf_repo_manager_del_repo_begin(id) ==
    /\ Idle
    /\ add = NoAdd
    /\ id \in repo_tree
    /\ purge' = [id |-> id, pc |-> 1, caller |-> "del_repo"]
    /\ last' = NoCall
    /\ UNCHANGED <<walk_vars, job_vars, token_vars, repo_tree, repo, tasks, watched, db, index_file, branch_db,
                   commits, wt, phase, todo, add, gc_started,
                   interrupted>>

seaf_repo_manager_del_repo_end ==
    /\ purge.pc = PurgeDone
    /\ purge.caller = "del_repo"
    /\ repo_tree' = repo_tree \ {purge.id}
    /\ repo' = [repo EXCEPT ![purge.id] = seaf_repo_new]
    /\ purge' = NoPurge
    /\ last' = [Result("del_repo", "done", "ok") EXCEPT
                  !.rwlock = "wrlock",
                  !.notify = send_wktree_notification(repo[purge.id], purge.id,
                                                      FALSE)]
    /\ UNCHANGED <<walk_vars, job_vars, token_vars, tasks, watched, db, index_file, branch_db, commits, wt, phase, todo, add, gc_started, interrupted>>

\* ---------------------------------------------------------------- startup

\* The process stops at any moment and starts again: memory is lost, the
\* store, the index files, the branch and commit stores and the worktrees are
\* kept, and seaf_repo_manager_init runs load_repos, which first visits the
\* tombstones.
Crash ==
    /\ repo_tree' = {}
    /\ repo' = [id \in RepoIds |-> seaf_repo_new]
    /\ tasks' = [id \in RepoIds |-> NoTask]
    /\ watched' = {}
    /\ interrupted' =
         IF purge.pc \in 2..Len(PurgeOrder)
         THEN interrupted \cup {purge.id} ELSE interrupted
    /\ purge' = NoPurge
    /\ add' = NoAdd
    /\ gc_started' = FALSE
    /\ phase' = "purge_deleted"
    /\ todo' = db.DeletedRepo
    /\ last' = NoCall
    /\ jobs' = [id \in RepoIds |-> "none"]
    /\ sync_tasks' = [id \in RepoIds |-> "none"]
    /\ cdata' = [id \in RepoIds |-> NoData]
    /\ db_lock' = "none"
    /\ calls' = [c \in Callers |-> NoVerify]
    /\ UNCHANGED <<walk_vars, issued, db, index_file, branch_db, commits, wt>>

\* remove_deleted_repo: the callback of SELECT repo_id FROM DeletedRepo.
remove_deleted_repo(id) ==
    /\ phase = "purge_deleted"
    /\ purge = NoPurge
    /\ id \in todo
    /\ todo' = todo \ {id}
    /\ purge' = [id |-> id, pc |-> 1, caller |-> "load_repos"]
    /\ UNCHANGED <<walk_vars, job_vars, token_vars, repo_tree, repo, tasks, watched, db, index_file, branch_db,
                   commits, wt, phase, add, gc_started, interrupted,
                   last>>

\* remove_repo_ondisk returns to load_repos or to load_repo.
remove_repo_ondisk_return ==
    /\ purge.pc = PurgeDone
    /\ purge.caller \in {"load_repos", "load_repo"}
    /\ purge' = NoPurge
    /\ UNCHANGED <<walk_vars, job_vars, token_vars, repo_tree, repo, tasks, watched, db, index_file, branch_db,
                   commits, wt, phase, todo, add, gc_started,
                   interrupted, last>>

\* load_repos goes on from the tombstones to SELECT repo_id FROM Repo, and
\* returns; seaf_repo_manager_start is called next.
load_repos_next ==
    /\ purge = NoPurge
    /\ todo = {}
    /\ \/ phase = "purge_deleted" /\ phase' = "load" /\ todo' = db.Repo
       \/ phase = "load" /\ phase' = "loaded" /\ todo' = {}
    /\ UNCHANGED <<walk_vars, job_vars, token_vars, repo_tree, repo, tasks, watched, db, index_file, branch_db,
                   commits, wt, purge, add, gc_started, interrupted,
                   last>>

\* load_repo_passwd: a RepoPasswd row makes the repository encrypted and
\* gives its passphrase; a RepoKeys row gives the key; with a passphrase and
\* no key row the key is derived again (recover_repo_enc_keys).
load_repo_passwd(d, id, r) ==
    LET r1 == IF id \in d.RepoPasswd
              THEN [r EXCEPT !.encrypted = TRUE, !.passwd = d.passwd[id]]
              ELSE r
    IN IF id \in d.RepoKeys
       THEN [r1 EXCEPT !.enc_key = hex_to_rawdata(d.key[id])]
       ELSE IF r1.passwd # NoPasswd
       THEN [r1 EXCEPT !.enc_key =
                seafile_generate_enc_key(r1.passwd, r1.enc_version)]
       ELSE r1

\* recover_repo_enc_keys: INSERT INTO RepoKeys of the derived key.
DbAfterLoadPasswd(d, id, r) ==
    IF id \notin d.RepoKeys /\ id \in d.RepoPasswd
    THEN [d EXCEPT !.RepoKeys = @ \cup {id},
                   !.key[id] = rawdata_to_hex(r.enc_key)]
    ELSE d

\* load_repo: the bound branch and its commit, or else the master branch and
\* its commit, must load; a repository for which they do not is purged.
\* commit_ok: whether the commit store returns the commit.  The encryption
\* fields come from that commit, then from the RepoPasswd and RepoKeys rows.
\* The worktree property, when there is one, makes the worktree valid.  The
\* repository is inserted and repo.setwktree published.
load_repo(id, commit_ok) ==
    /\ phase = "load"
    /\ purge = NoPurge
    /\ id \in todo
    /\ todo' = todo \ {id}
    /\ LET bound == db.RepoBranch[id]
           branch == IF bound # NoBranch THEN bound ELSE "master"
           corrupt == branch_db[id][branch] = NoCommit \/ ~commit_ok
           has_wt == <<id, "worktree">> \in db.RepoProperty
       IN IF corrupt
          THEN /\ purge' = [id |-> id, pc |-> 1, caller |-> "load_repo"]
               /\ UNCHANGED <<repo_tree, repo, db, last>>
          ELSE LET loaded ==
                     load_repo_passwd(db, id,
                        seaf_repo_from_commit(
                           [seaf_repo_new EXCEPT
                              !.head = bound,
                              !.head_commit =
                                 IF bound # NoBranch THEN branch_db[id][bound]
                                 ELSE NoCommit,
                              !.auto_sync =
                                 db.value[<<id, "auto-sync">>] # "false",
                              !.worktree = has_wt,
                              !.worktree_invalid = ~has_wt,
                              !.relay_id =
                                 IF /\ db.value[<<id, "relay-id">>] # NoValue
                                    /\ strlen(db.value[<<id, "relay-id">>]) = 40
                                 THEN db.value[<<id, "relay-id">>]
                                 ELSE NoValue,
                              !.net_browsable =
                                 db.value[<<id, "net-browsable">>] = "true"],
                           commits[branch_db[id][branch]]))
               IN /\ purge' = NoPurge
                  /\ repo_tree' = repo_tree \cup {id}
                  /\ repo' = [repo EXCEPT ![id] = loaded]
                  /\ db' = DbAfterLoadPasswd(db, id, loaded)
                  /\ last' = [last EXCEPT
                                !.notify = send_wktree_notification(loaded, id,
                                                                    TRUE)]
    /\ UNCHANGED <<walk_vars, job_vars, token_vars, tasks, watched, index_file, branch_db, commits, wt, phase, add, gc_started, interrupted>>

\* ---------------------------------------------------------------- lookups

KeepState ==
    UNCHANGED <<walk_vars, job_vars, token_vars, repo_tree, repo, tasks, watched, db, index_file, branch_db,
                commits, wt, purge, phase, todo, add, gc_started,
                interrupted>>

\* seaf_repo_manager_get_repo: avl_search, then the delete_pending test.
seaf_repo_manager_get_repo(id) ==
    /\ phase = "running"
    /\ last' = [Result("get_repo", "done", "ok") EXCEPT
                  !.rwlock = IF IdTooLong(id) THEN "unused" ELSE "rdlock",
                  !.found = IF ~IdTooLong(id) /\ id \in repo_tree
                               /\ ~repo[id].delete_pending
                            THEN {id} ELSE {}]
    /\ KeepState

\* avl_search_closest: the node with the key when there is one, else the node
\* at which the search ended, which is the key's neighbour on either side;
\* no node when the tree is empty.
ClosestNodes(key) ==
    IF key \in repo_tree THEN {key}
    ELSE LET below == {r \in repo_tree : StrLess(r, key)}
             above == {r \in repo_tree : StrLess(key, r)}
         IN {r \in below : \A q \in below : ~StrLess(r, q)}
            \cup {r \in above : \A q \in above : ~StrLess(q, r)}

\* seaf_repo_manager_get_repo_prefix: the closest node, when its id begins
\* with the argument.  There is no delete_pending test, and priv->lock is
\* not taken.
seaf_repo_manager_get_repo_prefix(p) ==
    /\ phase = "running"
    /\ \E node \in ClosestNodes(p) \cup {NoRepo} :
          /\ node = NoRepo => ClosestNodes(p) = {}
          /\ last' = [Result("get_repo_prefix", "done", "ok") EXCEPT
                        !.rwlock = IF IdTooLong(p) THEN "unused" ELSE "none",
                        !.found = IF ~IdTooLong(p) /\ node # NoRepo
                                     /\ HasPrefix(node, p)
                                  THEN {node} ELSE {}]
    /\ KeepState

\* seaf_repo_manager_repo_exists: as get_repo, reporting TRUE or FALSE.
seaf_repo_manager_repo_exists(id) ==
    /\ phase = "running"
    /\ last' = [Result("repo_exists", "done", "ok") EXCEPT
                  !.rwlock = "rdlock",
                  !.exists = id \in repo_tree /\ ~repo[id].delete_pending]
    /\ KeepState

\* seaf_repo_manager_repo_exists_prefix: TRUE when avl_search_closest gives
\* any node at all; priv->lock is not taken.
seaf_repo_manager_repo_exists_prefix(p) ==
    /\ phase = "running"
    /\ last' = [Result("repo_exists_prefix", "done", "ok") EXCEPT
                  !.rwlock = "none",
                  !.exists = ClosestNodes(p) # {}]
    /\ KeepState

\* seaf_repo_manager_get_repo_list: every repository not delete-pending.
seaf_repo_manager_get_repo_list ==
    /\ phase = "running"
    /\ last' = [Result("get_repo_list", "done", "ok") EXCEPT
                  !.rwlock = "rdlock",
                  !.found = {r \in repo_tree : ~repo[r].delete_pending}]
    /\ KeepState

\* --------------------------------------------- writers of the other tables

\* save_repo_property that writes the row and not the value.
save_repo_property_no_value(d, id, key, value) ==
    [d EXCEPT !.RepoProperty = @ \cup {<<id, key>>}]

\* save_repo_property: UPDATE or INSERT of one (repo_id, key) row.
save_repo_property(d, id, key, value) ==
    [d EXCEPT !.RepoProperty = @ \cup {<<id, key>>},
              !.value = [row \in DOMAIN @ |->
                           IF row = <<id, key>> THEN value ELSE @[row]]]

\* seaf_repo_manager_set_repo_relay_info: two save_repo_property calls.
seaf_repo_manager_set_repo_relay_info(id) ==
    /\ Idle
    /\ id \in repo_tree
    /\ db' = save_repo_property(
                save_repo_property(db, id, "relay-addr", "addr"),
                id, "relay-port", "port")
    /\ last' = Result("set_repo_relay_info", "done", "ok")
    /\ UNCHANGED <<walk_vars, job_vars, token_vars, repo_tree, repo, tasks, watched, index_file, branch_db,
                   commits, wt, purge, phase, todo, add, gc_started,
                   interrupted>>

\* generate_repo_enc_key with the key derived from the repository's id
\* followed by the passphrase, as the magic is.
generate_repo_enc_key_with_id(id, r, passwd) ==
    seafile_generate_enc_key(id \o passwd, r.enc_version)

\* generate_repo_enc_key: the key derived from the passphrase alone under the
\* repository's encryption version.
generate_repo_enc_key(id, r, passwd) ==
    seafile_generate_enc_key(passwd, r.enc_version)

\* seaf_repo_manager_set_repo_passwd: the key is derived and kept in memory
\* with the passphrase; save_repo_enc_info writes RepoPasswd, then RepoKeys,
\* and stops at the first statement that fails.
seaf_repo_manager_set_repo_passwd(id, passwd, passwd_ok, keys_ok) ==
    /\ Idle
    /\ id \in repo_tree
    /\ LET key == generate_repo_enc_key(id, repo[id], passwd)
       IN /\ repo' = [repo EXCEPT ![id].enc_key = key, ![id].passwd = passwd]
          /\ db' = [db EXCEPT
                !.RepoPasswd = IF passwd_ok THEN @ \cup {id} ELSE @,
                !.passwd[id] = IF passwd_ok THEN passwd ELSE @,
                !.RepoKeys = IF passwd_ok /\ keys_ok THEN @ \cup {id} ELSE @,
                !.key[id] = IF passwd_ok /\ keys_ok THEN rawdata_to_hex(key)
                            ELSE @]
    /\ last' = [Result("set_repo_passwd", "done",
                       IF passwd_ok /\ keys_ok THEN "ok" ELSE "fail") EXCEPT
                  !.passwd = passwd]
    /\ UNCHANGED <<walk_vars, job_vars, token_vars, repo_tree, tasks, watched, index_file, branch_db,
                   commits, wt, purge, phase, todo, add, gc_started,
                   interrupted>>

\* seaf_repo_generate_magic: the magic is the hex of the key derived from the
\* repository's id followed by the passphrase, under the current version.
seaf_repo_generate_magic(id, passwd) ==
    /\ Idle
    /\ id \in repo_tree
    /\ repo' = [repo EXCEPT ![id].magic =
                  rawdata_to_hex(seafile_generate_enc_key(
                                    id \o passwd, CURRENT_ENC_VERSION))]
    /\ last' = [Result("generate_magic", "done", "ok") EXCEPT
                  !.passwd = passwd]
    /\ UNCHANGED <<walk_vars, job_vars, token_vars, repo_tree, tasks, watched, db,
                   index_file, branch_db, commits, wt, purge, phase, todo, add,
                   gc_started, interrupted>>

\* seaf_repo_verify_passwd: the magic is computed again, under the
\* repository's encryption version, and compared with repo->magic.
seaf_repo_verify_passwd(id, passwd) ==
    /\ Idle
    /\ id \in repo_tree
    /\ LET hex == rawdata_to_hex(seafile_generate_enc_key(
                                    id \o passwd, repo[id].enc_version))
       IN last' = [Result("verify_passwd", "done",
                          IF hex = repo[id].magic THEN "ok" ELSE "fail") EXCEPT
                     !.passwd = passwd]
    /\ UNCHANGED <<walk_vars, job_vars, token_vars, repo_tree, repo, tasks, watched, db,
                   index_file, branch_db, commits, wt, purge, phase, todo, add,
                   gc_started, interrupted>>

\* seaf_repo_manager_set_merge: REPLACE INTO MergeInfo VALUES (id, 1, branch).
\* db.MergeInfo holds the ids that have a row, db.in_merge those whose row
\* has in_merge = 1.
seaf_repo_manager_set_merge(id, sql_ok) ==
    /\ Idle
    /\ id \in repo_tree
    /\ db' = IF sql_ok THEN [db EXCEPT !.MergeInfo = @ \cup {id},
                                       !.in_merge = @ \cup {id}]
             ELSE db
    /\ last' = Result("set_merge", "done", IF sql_ok THEN "ok" ELSE "fail")
    /\ UNCHANGED <<walk_vars, job_vars, token_vars, repo_tree, repo, tasks, watched, index_file, branch_db,
                   commits, wt, purge, phase, todo, add, gc_started,
                   interrupted>>

\* ------------------------------------------------------------ environment

\* The transfer of a clone stores the repository's first commit and creates
\* the branches bs at it.
env_fetch(id, bs) ==
    /\ Idle
    /\ id \in repo_tree
    /\ bs # {}
    /\ BranchList(id) = {}
    /\ Len(commits) < MaxCommits
    /\ commits' = Append(commits, [repo_id |-> id, parent |-> NoCommit,
                                   second_parent |-> NoCommit, root |-> "t0",
                                   enc |-> NoEnc])
    /\ branch_db' = [branch_db EXCEPT ![id] =
                        [b \in BranchNames |->
                            IF b \in bs THEN Len(commits) + 1 ELSE NoCommit]]
    /\ last' = NoCall
    /\ UNCHANGED <<walk_vars, job_vars, token_vars, repo_tree, repo, tasks, watched, db, index_file, wt,
                   purge, phase, todo, add, gc_started, interrupted>>

\* A sync downloads a commit of the remote: a child of the head commit with
\* some root.
env_download(id, root) ==
    /\ Idle
    /\ id \in repo_tree
    /\ repo[id].head # NoBranch
    /\ Len(commits) < MaxCommits
    /\ commits' = Append(commits, [repo_id |-> id,
                                   parent |-> repo[id].head_commit,
                                   second_parent |-> NoCommit, root |-> root,
                                   enc |-> commits[repo[id].head_commit].enc])
    /\ last' = NoCall
    /\ UNCHANGED <<walk_vars, job_vars, token_vars, repo_tree, repo, tasks, watched, db, index_file, branch_db,
                   wt, purge, phase, todo, add, gc_started, interrupted>>

\* The user creates, edits or removes the worktree directory.
env_worktree(id, t) ==
    /\ phase = "running"
    /\ t \in Trees \cup {"none"}
    /\ t # wt[id]
    /\ wt[id] = "none" => t = "empty"
    /\ wt' = [wt EXCEPT ![id] = t]
    /\ last' = NoCall
    /\ UNCHANGED <<walk_vars, job_vars, token_vars, repo_tree, repo, tasks, watched, db, index_file, branch_db,
                   commits, purge, phase, todo, add, gc_started,
                   interrupted>>

\* The index file is damaged on disk: read_index_from will fail on it.
env_index_damaged(id) ==
    /\ phase = "running"
    /\ index_file[id] \notin {NoIndex, "corrupt"}
    /\ index_file' = [index_file EXCEPT ![id] = "corrupt"]
    /\ last' = NoCall
    /\ UNCHANGED <<walk_vars, job_vars, token_vars, repo_tree, repo, tasks, watched, db, branch_db, commits,
                   wt, purge, phase, todo, add, gc_started,
                   interrupted>>

\* The garbage collector starts or stops.
gc_toggle ==
    /\ phase = "running"
    /\ gc_started' = ~gc_started
    /\ last' = NoCall
    /\ UNCHANGED <<walk_vars, job_vars, token_vars, repo_tree, repo, tasks, watched, db, index_file, branch_db,
                   commits, wt, purge, phase, todo, add, interrupted>>

\* ------------------------------------------------------- worktree validity

\* The value check_worktree_common returns.
check_worktree_common(r, id) ==
    r.head # NoBranch /\ seaf_repo_check_worktree(r, id)

\* The SeafRepo after check_worktree_common: the worktree is invalidated or
\* validated unless there is no head.
RepoAfterCheck(r, id) ==
    IF r.head = NoBranch THEN r
    ELSE [r EXCEPT !.worktree_invalid = ~seaf_repo_check_worktree(r, id)]

\* The worktree monitor after check_worktree_common: invalidating an auto-sync
\* repository unwatches it, validating one watches it.
WatchedAfterCheck(r, id, w) ==
    IF r.head = NoBranch \/ ~r.auto_sync THEN w
    ELSE IF seaf_repo_check_worktree(r, id)
         THEN (IF r.worktree_invalid THEN w \cup {id} ELSE w)
         ELSE (IF r.worktree_invalid THEN w ELSE w \ {id})

\* seaf_repo_manager_set_repo_worktree: -1 when the directory cannot be
\* accessed; repo->worktree is set and repo.setwktree published; -1 when the
\* property cannot be saved; else the worktree is valid and an auto-sync
\* repository is watched.
seaf_repo_manager_set_repo_worktree(id, sql_ok) ==
    /\ Idle
    /\ id \in repo_tree
    /\ IF wt[id] = "none"
       THEN /\ UNCHANGED <<repo, db, watched>>
            /\ last' = Result("set_repo_worktree", "no_access", "fail")
       ELSE IF ~sql_ok
       THEN /\ repo' = [repo EXCEPT ![id].worktree = TRUE]
            /\ UNCHANGED <<db, watched>>
            /\ last' = [Result("set_repo_worktree", "sql_failed", "fail")
                          EXCEPT !.notify = {"repo.setwktree"}]
       ELSE /\ repo' = [repo EXCEPT ![id].worktree = TRUE,
                                    ![id].worktree_invalid = FALSE]
            /\ db' = save_repo_property(db, id, "worktree", "path")
            /\ watched' = IF repo[id].auto_sync THEN watched \cup {id}
                          ELSE watched
            /\ last' = [Result("set_repo_worktree", "done", "ok")
                          EXCEPT !.notify = {"repo.setwktree"}]
    /\ UNCHANGED <<walk_vars, job_vars, token_vars, repo_tree, tasks,
                   index_file, branch_db, commits, wt, purge, phase, todo,
                   add, gc_started, interrupted>>

\* seaf_repo_manager_invalidate_repo_worktree: nothing when the worktree is
\* invalid already; else it is, and an auto-sync repository is unwatched.
seaf_repo_manager_invalidate_repo_worktree(id) ==
    /\ Idle
    /\ id \in repo_tree
    /\ IF repo[id].worktree_invalid
       THEN UNCHANGED <<repo, watched>>
       ELSE /\ repo' = [repo EXCEPT ![id].worktree_invalid = TRUE]
            /\ watched' = IF repo[id].auto_sync THEN watched \ {id}
                          ELSE watched
    /\ last' = Result("invalidate_repo_worktree", "done", "ok")
    /\ UNCHANGED <<walk_vars, job_vars, token_vars, repo_tree, tasks,
                   db, index_file, branch_db, commits, wt, purge, phase, todo,
                   add, gc_started, interrupted>>

\* seaf_repo_manager_validate_repo_worktree: nothing when the worktree is
\* valid already; else it is, and an auto-sync repository is watched.
seaf_repo_manager_validate_repo_worktree(id) ==
    /\ Idle
    /\ id \in repo_tree
    /\ IF ~repo[id].worktree_invalid
       THEN UNCHANGED <<repo, watched>>
       ELSE /\ repo' = [repo EXCEPT ![id].worktree_invalid = FALSE]
            /\ watched' = IF repo[id].auto_sync THEN watched \cup {id}
                          ELSE watched
    /\ last' = Result("validate_repo_worktree", "done", "ok")
    /\ UNCHANGED <<walk_vars, job_vars, token_vars, repo_tree, tasks,
                   db, index_file, branch_db, commits, wt, purge, phase, todo,
                   add, gc_started, interrupted>>

\* ----------------------------------------------------------------- commit

\* The tree an index file records; a missing file reads as the unborn index.
IndexTree(idx) == IF idx = NoIndex THEN "empty" ELSE idx

\* The root of the commit repo->head names.
HeadRoot(r) ==
    IF r.head_commit = NoCommit THEN "empty" ELSE commits[r.head_commit].root

\* seaf_repo_index_commit, no description given: gen_commit_description is
\* NULL when the index does not differ from the head commit, and the call
\* returns NULL there.
NoDescriptionIgnored(desc_empty, unmerged, no_diff) == FALSE

NoDescription(desc_empty, unmerged, no_diff) ==
    ~unmerged /\ desc_empty /\ no_diff

\* commit_tree with the branch pointer moved before the commit is stored.
commit_tree_set_first(id, r, unmerged, root, write_ok, update_ok) ==
    LET master == branch_db[id]["master"]
        new_id == Len(commits) + 1
    IN IF unmerged /\ master = NoCommit
       THEN [ret |-> -1, why |-> "no_master", commits |-> commits,
             head_commit |-> r.head_commit, branch_db |-> branch_db]
       ELSE [ret |-> IF write_ok THEN 0 ELSE -1,
             why |-> IF write_ok THEN "done" ELSE "commit_write_failed",
             commits |->
                IF write_ok
                THEN Append(commits,
                       [repo_id |-> id, parent |-> r.head_commit,
                        second_parent |-> IF unmerged THEN master ELSE NoCommit,
                        root |-> root, enc |-> seaf_repo_to_commit(r)])
                ELSE commits,
             head_commit |-> new_id,
             branch_db |-> [branch_db EXCEPT ![id][r.head] = new_id]]

\* commit_tree: the commit's parent is repo->head->commit_id; with unmerged
\* its second parent is branch master's commit, and -1 when there is no such
\* branch; -1 when the commit store fails; then the in-memory branch is set
\* and the branch store updated (its result is not looked at).
commit_tree(id, r, unmerged, root, write_ok, update_ok) ==
    LET master == branch_db[id]["master"]
        new_id == Len(commits) + 1
        commit == [repo_id |-> id, parent |-> r.head_commit,
                   second_parent |-> IF unmerged THEN master ELSE NoCommit,
                   root |-> root, enc |-> seaf_repo_to_commit(r)]
    IN IF unmerged /\ master = NoCommit
       THEN [ret |-> -1, why |-> "no_master", commits |-> commits,
             head_commit |-> r.head_commit, branch_db |-> branch_db]
       ELSE IF ~write_ok
       THEN [ret |-> -1, why |-> "commit_write_failed", commits |-> commits,
             head_commit |-> r.head_commit, branch_db |-> branch_db]
       ELSE [ret |-> 0, why |-> "done", commits |-> Append(commits, commit),
             head_commit |-> new_id,
             branch_db |-> IF update_ok
                           THEN [branch_db EXCEPT ![id][r.head] = new_id]
                           ELSE branch_db]

\* What seaf_repo_index_commit does to a repository with fields r and index
\* file idx.  tree_ok: cache_tree_update succeeds; write_ok: the commit store
\* takes the commit; update_ok: the branch store takes the update.
index_commit(id, r, idx, desc_empty, unmerged, tree_ok, write_ok, update_ok) ==
    LET r1 == RepoAfterCheck(r, id)
        same == [path |-> "none", err |-> "none", emitted |-> FALSE, r |-> r1,
                 commits |-> commits, branch_db |-> branch_db,
                 commit |-> NoCommit]
        ct == commit_tree(id, r1, unmerged, IndexTree(idx), write_ok, update_ok)
    IN IF ~check_worktree_common(r, id)
       THEN [same EXCEPT !.path = "no_worktree"]
       ELSE IF idx = "corrupt"
       THEN [same EXCEPT !.path = "index_unreadable", !.err = "Internal"]
       ELSE IF NoDescription(desc_empty, unmerged, IndexTree(idx) = HeadRoot(r1))
       THEN [same EXCEPT !.path = "no_diff"]
       ELSE IF ~tree_ok
       THEN [same EXCEPT !.path = "cache_tree_failed", !.err = "Internal"]
       ELSE IF ct.ret < 0
       THEN [same EXCEPT !.path = ct.why, !.err = "Internal",
                         !.r = [r1 EXCEPT !.head_commit = ct.head_commit],
                         !.commits = ct.commits, !.branch_db = ct.branch_db]
       ELSE [path |-> "done", err |-> "none", emitted |-> TRUE,
             r |-> [r1 EXCEPT !.head_commit = ct.head_commit],
             commits |-> ct.commits, branch_db |-> ct.branch_db,
             commit |-> ct.head_commit]

\* seaf_repo_index_commit: NULL or the new commit's id.
seaf_repo_index_commit(id, desc_empty, unmerged, tree_ok, write_ok, update_ok) ==
    /\ Idle
    /\ add = NoAdd
    /\ id \in repo_tree
    /\ LET out == index_commit(id, repo[id], index_file[id], desc_empty,
                               unmerged, tree_ok, write_ok, update_ok)
       IN /\ Len(out.commits) <= MaxCommits
          /\ repo' = [repo EXCEPT ![id] = out.r]
          /\ watched' = WatchedAfterCheck(repo[id], id, watched)
          /\ commits' = out.commits
          /\ branch_db' = out.branch_db
          /\ last' = [Result("index_commit", out.path,
                             IF out.path = "done" THEN "ok" ELSE "fail") EXCEPT
                        !.err = out.err, !.emitted = out.emitted]
    /\ UNCHANGED <<walk_vars, job_vars, token_vars, repo_tree, tasks, db, index_file, wt, purge, phase,
                   todo, add, gc_started, interrupted>>

\* --------------------------------------------------------------- checkout

\* The root of commit c.
RootOf(c) == commits[c].root

\* unpack_trees with twoway_merge, as the checkout uses it: 0, or -1 when it
\* fails by itself (unpack_ok) or when head and target differ and either the
\* index holds changes that are in neither or the worktree differs from the
\* index.  On an initial checkout there is nothing to compare with.
unpack_trees_twoway(id, r, idx, c, unpack_ok) ==
    IF ~unpack_ok THEN -1
    ELSE IF idx = NoIndex THEN 0
    ELSE IF /\ HeadRoot(r) # RootOf(c)
            /\ \/ IndexTree(idx) \notin {HeadRoot(r), RootOf(c)}
               \/ wt[id] # IndexTree(idx)
    THEN -1
    ELSE 0

\* The index unpack_trees plans for the checkout of c.
TwowayResult(r, idx, c) ==
    IF idx # NoIndex /\ HeadRoot(r) = RootOf(c) THEN IndexTree(idx)
    ELSE RootOf(c)

\* A worktree update that fails midway leaves content that is neither what
\* was there nor what was to be there.
Midway(old, target) ==
    IF old = target THEN old
    ELSE CHOOSE t \in Trees : t # old /\ t # target

\* The worktree after update_worktree was to bring it from the index idx to
\* the planned index: done, failed before the first file, or failed midway.
update_worktree(id, idx, planned, wt_res) ==
    IF idx # NoIndex /\ IndexTree(idx) = planned THEN wt[id]
    ELSE IF wt_res = "ok" THEN planned
    ELSE IF wt_res = "fail" THEN wt[id]
    ELSE Midway(wt[id], planned)

\* seaf_repo_checkout_commit goes on past an unpack_trees that failed.
UnpackFailedIgnored(rc) == FALSE

\* seaf_repo_checkout_commit: unpack_trees (2, trees, &topts) < 0
UnpackFailed(rc) == rc < 0

\* What seaf_repo_checkout_commit does to a repository with fields r and
\* index file idx when it checks out commit c.  The index is read; the
\* checkout is planned; the worktree is updated; the planned index is written.
\* live counts the indexes still allocated at the return.
checkout_commit(id, r, idx, c, unpack_ok, wt_res, idx_ok) ==
    LET r1 == [r EXCEPT !.index_corrupted = FALSE]
        same == [path |-> "none", ret |-> -1, r |-> r1, wt |-> wt[id],
                 index |-> idx, live |-> 0]
        planned == TwowayResult(r, idx, c)
        new_wt == update_worktree(id, idx, planned, wt_res)
    IN IF idx = "corrupt"
       THEN [same EXCEPT !.path = "index_unreadable", !.r = r]
       ELSE IF idx # NoIndex /\ r.head = NoBranch
       THEN [same EXCEPT !.path = "no_head", !.live = 1]
       ELSE IF UnpackFailed(unpack_trees_twoway(id, r, idx, c, unpack_ok))
       THEN [same EXCEPT !.path = "unpack_failed"]
       ELSE IF wt_res # "ok"
       THEN [same EXCEPT !.path = "worktree_failed", !.wt = new_wt, !.live = 1]
       ELSE IF ~idx_ok
       THEN [same EXCEPT !.path = "index_write_failed", !.wt = new_wt]
       ELSE [same EXCEPT !.path = "done", !.ret = 0, !.wt = new_wt,
                         !.index = planned]

\* seaf_repo_checkout_commit called on a repository that has a worktree.
seaf_repo_checkout_commit(id, c, unpack_ok, wt_res, idx_ok) ==
    /\ Idle
    /\ add = NoAdd
    /\ id \in repo_tree
    /\ seaf_repo_check_worktree(repo[id], id)
    /\ c \in 1..Len(commits)
    /\ LET out == checkout_commit(id, repo[id], index_file[id], c, unpack_ok,
                                  wt_res, idx_ok)
       IN /\ repo' = [repo EXCEPT ![id] = out.r]
          /\ wt' = [wt EXCEPT ![id] = out.wt]
          /\ index_file' = [index_file EXCEPT ![id] = out.index]
          /\ last' = [Result("checkout_commit", out.path,
                             IF out.ret = 0 THEN "ok" ELSE "fail") EXCEPT
                        !.live = out.live]
    /\ UNCHANGED <<walk_vars, job_vars, token_vars, repo_tree, tasks, watched, db, branch_db, commits, purge, phase, todo, add, gc_started, interrupted>>

\* seaf_repo_checkout: seaf_repo_checkout_commit (...) < 0
CheckoutCommitFailed(rc) == rc < 0

\* What seaf_repo_checkout does: the index file is removed first; branch
\* local and its commit are looked up; the files are counted; the commit is
\* checked out; then seaf_repo_set_head binds the branch (REPLACE INTO
\* RepoBranch, result ignored) and sets repo->head.
checkout(id, r, commit_ok, count_ok, unpack_ok, wt_res, idx_ok, map_ok) ==
    LET local == branch_db[id]["local"]
        same == [path |-> "none", ret |-> -1, r |-> r, wt |-> wt[id],
                 index |-> NoIndex, live |-> 0, db |-> db]
        cc == checkout_commit(id, r, NoIndex, local, unpack_ok, wt_res, idx_ok)
    IN IF local = NoCommit
       THEN [same EXCEPT !.path = "no_local_branch"]
       ELSE IF ~commit_ok
       THEN [same EXCEPT !.path = "no_commit"]
       ELSE IF commits[local].repo_id # id
       THEN [same EXCEPT !.path = "wrong_repo"]
       ELSE IF ~count_ok
       THEN [same EXCEPT !.path = "count_failed"]
       ELSE IF CheckoutCommitFailed(cc.ret)
       THEN [same EXCEPT !.path = cc.path, !.r = cc.r, !.wt = cc.wt,
                         !.index = cc.index, !.live = cc.live]
       ELSE [path |-> IF cc.ret = 0 THEN "done" ELSE cc.path,
             ret |-> 0,
             r |-> [cc.r EXCEPT !.head = "local", !.head_commit = local],
             wt |-> cc.wt, index |-> cc.index, live |-> cc.live,
             db |-> IF map_ok THEN [db EXCEPT !.RepoBranch[id] = "local"]
                    ELSE db]

\* seaf_repo_manager_add_checkout_task: the task is put into the table and
\* the job scheduled.
seaf_repo_manager_add_checkout_task(id) ==
    /\ Idle
    /\ id \in repo_tree
    /\ tasks[id].state \in {"none", "done"}
    /\ tasks' = [tasks EXCEPT ![id] = [state |-> "scheduled", success |-> FALSE]]
    /\ last' = Result("add_checkout_task", "done", "ok")
    /\ UNCHANGED <<walk_vars, job_vars, token_vars, repo_tree, repo, watched, db, index_file, branch_db, commits,
                   wt, purge, phase, todo, add, gc_started,
                   interrupted>>

\* pthread_mutex_lock (&repo->lock) returns at once whoever holds the lock.
LockFreeIgnored(r) == TRUE

\* pthread_mutex_lock (&repo->lock) returns: no one holds the lock.
LockFree(r) == r.lock = "free"

\* checkout_repo_job, up to pthread_mutex_lock: the job thread has found its
\* task and holds the repository's lock.
checkout_repo_job_lock(id) ==
    /\ Idle
    /\ id \in repo_tree
    /\ tasks[id].state = "scheduled"
    /\ LockFree(repo[id])
    /\ tasks' = [tasks EXCEPT ![id].state = "locked"]
    /\ repo' = [repo EXCEPT ![id].lock = "checkout"]
    /\ UNCHANGED <<walk_vars, job_vars, token_vars, repo_tree, watched, db, index_file,
                   branch_db, commits, wt, purge, phase, todo, add, gc_started,
                   interrupted, last>>

\* checkout_repo_job, from pthread_mutex_lock on: repo->worktree is set,
\* seaf_repo_checkout runs, task->success records whether it returned 0, and
\* the lock is released at ret.
checkout_repo_job(id, commit_ok, count_ok, unpack_ok, wt_res, idx_ok, map_ok) ==
    /\ Idle
    /\ add = NoAdd
    /\ id \in repo_tree
    /\ tasks[id].state = "locked"
    /\ LET out == checkout(id, [repo[id] EXCEPT !.worktree = TRUE], commit_ok,
                           count_ok, unpack_ok, wt_res, idx_ok, map_ok)
       IN /\ repo' = [repo EXCEPT ![id] = [out.r EXCEPT !.lock = "free"]]
          /\ wt' = [wt EXCEPT ![id] = out.wt]
          /\ index_file' = [index_file EXCEPT ![id] = out.index]
          /\ db' = out.db
          /\ tasks' = [tasks EXCEPT ![id] =
                          [state |-> "ran", success |-> out.ret = 0]]
          /\ last' = [Result("checkout", out.path,
                             IF out.ret = 0 THEN "ok" ELSE "fail") EXCEPT
                        !.live = out.live]
    /\ UNCHANGED <<walk_vars, job_vars, token_vars, repo_tree, watched, branch_db, commits, purge,
                   phase, todo, add, gc_started, interrupted>>

\* checkout_job_done: seaf_repo_manager_set_repo_worktree, whatever the job
\* did.  It gives up when the directory cannot be accessed, and, after
\* repo->worktree is set, when seaf_repo_manager_get_repo does not give the
\* repository; else the property is saved, the worktree made valid and an
\* auto-sync repository watched.  repo.setwktree is published as soon as
\* repo->worktree is set.  When cdata->task has been freed, the worktree path
\* read from it is the one the task had or bytes that name no directory.  The
\* job scheduled next for the repository, if any, is then the one followed.
checkout_job_done(id) ==
    /\ Idle
    /\ id \in repo_tree
    /\ tasks[id].state = "ran"
    /\ tasks' = [tasks EXCEPT ![id].state =
                    IF cdata[id].queue = <<>> THEN "done" ELSE "scheduled"]
    /\ cdata' = [cdata EXCEPT ![id] =
                    IF @.queue = <<>> THEN NoData
                    ELSE [freed |-> Head(@.queue), queue |-> Tail(@.queue)]]
    /\ \E garbage \in (IF cdata[id].freed THEN BOOLEAN ELSE {FALSE}) :
          /\ IF wt[id] = "none" \/ garbage
             THEN UNCHANGED <<repo, db, watched>>
             ELSE IF repo[id].delete_pending
             THEN /\ repo' = [repo EXCEPT ![id].worktree = TRUE]
                  /\ UNCHANGED <<db, watched>>
             ELSE /\ repo' = [repo EXCEPT ![id].worktree = TRUE,
                                          ![id].worktree_invalid = FALSE]
                  /\ db' = save_repo_property(db, id, "worktree", "path")
                  /\ watched' = IF repo[id].auto_sync THEN watched \cup {id}
                                ELSE watched
          /\ last' = [NoCall EXCEPT
                        !.notify =
                           IF wt[id] = "none" \/ garbage THEN {}
                           ELSE send_wktree_notification(
                                   [repo[id] EXCEPT !.worktree = TRUE], id,
                                   TRUE)]
    /\ UNCHANGED <<walk_vars, jobs, sync_tasks, token_vars, repo_tree,
                   index_file, branch_db, commits, wt, purge, phase, todo,
                   add, gc_started, interrupted>>

\* How many checkout jobs wait behind the one that runs.
MaxQueued == 1

\* seaf_repo_manager_add_checkout_task for a repository whose earlier task is
\* still with a job: g_hash_table_insert puts a new zeroed task in place of
\* the one in the table, which the value destroy function g_free frees, and
\* one more job is scheduled.  Every CheckoutData made before holds a freed
\* task from then on.
seaf_repo_manager_add_checkout_task_again(id) ==
    /\ Idle
    /\ id \in repo_tree
    /\ tasks[id].state \in {"scheduled", "locked", "ran"}
    /\ Len(cdata[id].queue) < MaxQueued
    /\ tasks' = [tasks EXCEPT ![id].success = FALSE]
    /\ cdata' = [cdata EXCEPT ![id] =
                    [freed |-> TRUE,
                     queue |-> Append([i \in DOMAIN @.queue |-> TRUE], FALSE)]]
    /\ last' = Result("add_checkout_task", "done", "ok")
    /\ UNCHANGED <<walk_vars, jobs, sync_tasks, token_vars, repo_tree, repo,
                   watched, db, index_file, branch_db, commits, wt, purge,
                   phase, todo, add, gc_started, interrupted>>

\* The caller of a checkout task wants it cancelled.  The manager has no call
\* for that and CheckoutTask no field a job reads: the request is only what
\* the caller did last.
env_cancel_checkout(id) ==
    /\ Idle
    /\ id \in repo_tree
    /\ tasks[id].state \in {"scheduled", "locked"}
    /\ last' = Result("cancel_checkout", "requested", "none")
    /\ UNCHANGED <<walk_vars, job_vars, token_vars, repo_tree, repo, tasks, watched, db,
                   index_file, branch_db, commits, wt, purge, phase, todo, add,
                   gc_started, interrupted>>

\* ------------------------------------------------------- reset and revert

\* reset_common: unpack_trees with oneway_merge and reset set overwrites
\* local changes, so it fails only by itself; then update_worktree; then the
\* caller's index is replaced by the planned one.  leaked counts the planned
\* index left allocated when update_worktree fails.
reset_common(id, idx, c, unpack_ok, wt_res) ==
    IF ~unpack_ok
    THEN [ret |-> -1, path |-> "unpack_failed", wt |-> wt[id], leaked |-> 0]
    ELSE IF wt_res # "ok"
    THEN [ret |-> -1, path |-> "worktree_failed",
          wt |-> IF wt_res = "fail" THEN wt[id] ELSE Midway(wt[id], RootOf(c)),
          leaked |-> 1]
    ELSE [ret |-> 0, path |-> "done", wt |-> RootOf(c), leaked |-> 0]

\* seaf_repo_reset moves the branch although update_index failed.
IndexWriteFailedIgnored(idx_ok) == FALSE

\* seaf_repo_reset, seaf_repo_revert: update_index (&istate, index_path) < 0
IndexWriteFailed(idx_ok) == ~idx_ok

\* The steps seaf_repo_reset and seaf_repo_revert share: the worktree check,
\* the index read, the commit lookup, reset_common and the index write.
reset_to(id, r, idx, c, unpack_ok, wt_res, idx_ok) ==
    LET r1 == RepoAfterCheck(r, id)
        same == [path |-> "none", ret |-> -1, r |-> r1, wt |-> wt[id],
                 index |-> idx, live |-> 0]
        rc == reset_common(id, idx, c, unpack_ok, wt_res)
    IN IF ~check_worktree_common(r, id)
       THEN [same EXCEPT !.path = "no_worktree"]
       ELSE IF idx = "corrupt"
       THEN [same EXCEPT !.path = "index_unreadable"]
       ELSE IF c = NoCommit
       THEN [same EXCEPT !.path = "no_commit", !.live = 1]
       ELSE IF rc.ret < 0
       THEN [same EXCEPT !.path = rc.path, !.wt = rc.wt, !.live = rc.leaked]
       ELSE IF IndexWriteFailed(idx_ok)
       THEN [same EXCEPT !.path = "index_write_failed", !.wt = rc.wt]
       ELSE [same EXCEPT !.path = "done", !.ret = 0, !.wt = rc.wt,
                         !.index = IF idx_ok THEN RootOf(c) ELSE idx]

\* seaf_repo_reset: after the shared steps the in-memory branch is set to the
\* commit and the branch store updated (its result is not looked at).
seaf_repo_reset(id, c, unpack_ok, wt_res, idx_ok, update_ok) ==
    /\ Idle
    /\ add = NoAdd
    /\ id \in repo_tree
    /\ c \in 0..Len(commits)
    /\ LET out == reset_to(id, repo[id], index_file[id], c, unpack_ok, wt_res,
                           idx_ok)
       IN /\ repo' = [repo EXCEPT ![id] =
                        IF out.ret = 0 THEN [out.r EXCEPT !.head_commit = c]
                        ELSE out.r]
          /\ branch_db' =
                IF out.ret = 0 /\ update_ok
                THEN [branch_db EXCEPT ![id][repo[id].head] = c]
                ELSE branch_db
          /\ wt' = [wt EXCEPT ![id] = out.wt]
          /\ index_file' = [index_file EXCEPT ![id] = out.index]
          /\ watched' = WatchedAfterCheck(repo[id], id, watched)
          /\ last' = [Result("reset", out.path,
                             IF out.ret = 0 THEN "ok" ELSE "fail") EXCEPT
                        !.live = out.live]
    /\ UNCHANGED <<walk_vars, job_vars, token_vars, repo_tree, tasks, db, commits, purge, phase, todo,
                   add, gc_started, interrupted>>

\* seaf_repo_revert: after the shared steps seaf_repo_index_commit commits
\* the index under a description of its own; -1 only when that returned NULL
\* and set an error.  Nothing done before is undone.
seaf_repo_revert(id, c, unpack_ok, wt_res, idx_ok, tree_ok, write_ok, update_ok) ==
    /\ Idle
    /\ add = NoAdd
    /\ id \in repo_tree
    /\ c \in 0..Len(commits)
    /\ LET out == reset_to(id, repo[id], index_file[id], c, unpack_ok, wt_res,
                           idx_ok)
           ic == index_commit(id, out.r, out.index, FALSE, FALSE, tree_ok,
                              write_ok, update_ok)
       IN /\ out.ret = 0 => Len(ic.commits) <= MaxCommits
          /\ wt' = [wt EXCEPT ![id] = out.wt]
          /\ index_file' = [index_file EXCEPT ![id] = out.index]
          /\ watched' = WatchedAfterCheck(repo[id], id, watched)
          /\ IF out.ret < 0
             THEN /\ repo' = [repo EXCEPT ![id] = out.r]
                  /\ UNCHANGED <<commits, branch_db>>
                  /\ last' = [Result("revert", out.path, "fail") EXCEPT
                                !.live = out.live]
             ELSE /\ repo' = [repo EXCEPT ![id] = ic.r]
                  /\ commits' = ic.commits
                  /\ branch_db' = ic.branch_db
                  /\ last' = [Result("revert",
                                IF ic.path = "done" THEN "done"
                                ELSE "commit_failed",
                                IF ic.path # "done" /\ ic.err # "none"
                                THEN "fail" ELSE "ok") EXCEPT
                                !.emitted = ic.emitted]
    /\ UNCHANGED <<walk_vars, job_vars, token_vars, repo_tree, tasks, db, purge, phase, todo, add,
                   gc_started, interrupted>>

\* -------------------------------------------------------------- index add

AddResults == {"ok", "fail", "fail_late"}

\* seaf_repo_index_add is entered.
seaf_repo_index_add_begin(id) ==
    /\ Idle
    /\ add = NoAdd
    /\ id \in repo_tree
    /\ add' = [id |-> id, pc |-> "poll"]
    /\ last' = NoCall
    /\ UNCHANGED <<walk_vars, job_vars, token_vars, repo_tree, repo, tasks, watched, db, index_file, branch_db,
                   commits, wt, purge, phase, todo, gc_started,
                   interrupted>>

\* while (gc_is_started ()) sleep (1): the loop is left when the flag is
\* found clear.
seaf_repo_index_add_poll ==
    /\ add.pc = "poll"
    /\ ~gc_started
    /\ add' = [add EXCEPT !.pc = "polled"]
    /\ last' = NoCall
    /\ UNCHANGED <<walk_vars, job_vars, token_vars, repo_tree, repo, tasks, watched, db, index_file, branch_db,
                   commits, wt, purge, phase, todo, gc_started,
                   interrupted>>

\* The rest of seaf_repo_index_add: the worktree check, the index read,
\* add_recursive, which stores the blocks and file objects of the files that
\* differ from the index, remove_deleted and the index write.  add_res:
\* add_recursive succeeds, fails at once, or fails after it stored objects.
seaf_repo_index_add_run(add_res, idx_ok) ==
    /\ add.pc = "polled"
    /\ LET id == add.id
           r == repo[id]
           changed == wt[id] # IndexTree(index_file[id])
           path == IF ~check_worktree_common(r, id) THEN "no_worktree"
                   ELSE IF index_file[id] = "corrupt" THEN "index_unreadable"
                   ELSE IF add_res # "ok" THEN "add_failed"
                   ELSE IF ~idx_ok THEN "index_write_failed"
                   ELSE "done"
       IN /\ repo' = [repo EXCEPT ![id] = RepoAfterCheck(r, id)]
          /\ watched' = WatchedAfterCheck(r, id, watched)
          /\ index_file' = IF path = "done"
                           THEN [index_file EXCEPT ![id] = wt[id]]
                           ELSE index_file
          /\ last' = [Result("index_add", path,
                             IF path = "done" THEN "ok" ELSE "fail") EXCEPT
                        !.stored =
                           /\ changed
                           /\ \/ path \in {"index_write_failed", "done"}
                              \/ path = "add_failed" /\ add_res = "fail_late"]
    /\ add' = NoAdd
    /\ UNCHANGED <<walk_vars, job_vars, token_vars, repo_tree, tasks, db, branch_db, commits, wt, purge, phase,
                   todo, gc_started, interrupted>>

\* ---------------------------------------------------- index add and rm

\* What fails during a call: nothing; g_lstat, add_to_index, g_dir_open or
\* g_dir_read_name at one path; read_index_from; cache_tree_update;
\* update_index.  errno: the failing add_to_index left errno set.
NoFault == [kind |-> "none", path |-> <<>>, errno |-> FALSE]

WalkFaults ==
    {NoFault,
     [kind |-> "read", path |-> <<>>, errno |-> FALSE],
     [kind |-> "tree", path |-> <<>>, errno |-> FALSE],
     [kind |-> "write", path |-> <<>>, errno |-> FALSE]}
    \cup [kind : {"stat"}, path : {<<97, 98>>}, errno : {TRUE}]
    \cup [kind : {"index"}, path : {<<97, 98>>}, errno : BOOLEAN]
    \cup [kind : {"opendir", "readdir"}, path : {<<97>>}, errno : {TRUE}]

Fails(fault, kind, path) == fault.kind = kind /\ fault.path = path

\* g_dir_read_name: the names in the directory at path, in the order in which
\* they are read.  The order is not specified: the model reads them in
\* ascending or in descending order.  Only the root holds a directory, so
\* the order matters in the root only.
g_dir_read_name(worktree, path, reverse) ==
    LET all == IF path = <<>> THEN RootNames
               ELSE IF path = <<97>> THEN SubNames ELSE <<>>
        ordered == [i \in DOMAIN all |->
                      IF reverse THEN all[Len(all) + 1 - i] ELSE all[i]]
        Present(dname) == worktree[g_build_path(path, dname)] # "none"
    IN SelectSeq(ordered, Present)

\* add_recursive and the loop over the names of a directory in it.  w holds
\* the worktree, ignore_empty_dir, the fault, the reading order and ub; st
\* holds the index, whether errno is set, the value returned and the loop's
\* count n.  The value a nested call returns is dropped.
RECURSIVE add_recursive(_, _, _)
RECURSIVE add_recursive_loop(_, _, _, _)
add_recursive_loop(w, st, path, names) ==
    IF names = <<>> THEN st
    ELSE IF should_ignore(Head(names))
    THEN add_recursive_loop(w, st, path, Tail(names))
    ELSE add_recursive_loop(
            w, [add_recursive(w, st, g_build_path(path, Head(names)))
                  EXCEPT !.n = st.n + 1],
            path, Tail(names))

add_recursive(w, st, path) ==
    IF has_trailing_space(path, w.ub) THEN [st EXCEPT !.ret = 0]
    ELSE IF Fails(w.fault, "stat", path) \/ w.worktree[path] = "none"
    THEN [st EXCEPT !.ret = 1, !.errno = TRUE]
    ELSE IF w.worktree[path] # "dir"
    THEN IF Fails(w.fault, "index", path)
         THEN [st EXCEPT !.ret = -1, !.errno = @ \/ w.fault.errno]
         ELSE [st EXCEPT !.ret = 0, !.istate[path] = w.worktree[path]]
    ELSE IF Fails(w.fault, "opendir", path)
    THEN [st EXCEPT !.ret = -1, !.errno = TRUE]
    ELSE CHOOSE out \in
            {IF read.errno \/ Fails(w.fault, "readdir", path)
             THEN [read EXCEPT !.ret = -1, !.errno = TRUE]
             ELSE IF read.n = 0 /\ ~w.ignore_empty_dir
             THEN [read EXCEPT !.ret = 0, !.istate[path] = "dir"]
             ELSE [read EXCEPT !.ret = 0] :
                read \in {add_recursive_loop(
                             w, [st EXCEPT !.errno = FALSE, !.n = 0], path,
                             g_dir_read_name(w.worktree, path, w.reverse))}} :
            TRUE

\* is_empty_dir: no name in the directory passes should_ignore; FALSE when
\* the directory cannot be opened.
is_empty_dir(w, path) ==
    /\ ~Fails(w.fault, "opendir", path)
    /\ LET names == g_dir_read_name(w.worktree, path, w.reverse)
       IN \A i \in DOMAIN names : should_ignore(names[i])

\* remove_deleted: the index without the entries whose name begins with
\* prefix and whose file cannot be stat-ed or has changed its type.
remove_deleted(istate, w, prefix) ==
    [name \in DOMAIN istate |->
        IF istate[name] = "none" \/ ~HasPrefix(name, prefix) THEN istate[name]
        ELSE LET failed == \/ Fails(w.fault, "stat", name)
                           \/ w.worktree[name] = "none"
             IN IF istate[name] = "dir"
                THEN IF failed \/ w.worktree[name] # "dir"
                        \/ ~is_empty_dir(w, name)
                     THEN "none" ELSE istate[name]
                ELSE IF failed \/ w.worktree[name] = "dir"
                     THEN "none" ELSE istate[name]]

\* Skip any leading '/'.
RECURSIVE SkipSlashes(_)
SkipSlashes(path) ==
    IF path # <<>> /\ Head(path) = 47 THEN SkipSlashes(Tail(path)) ELSE path

\* The path arguments given to add and rm.
WalkArgs == {<<>>, <<97>>, <<97, 98>>, <<97, 126>>, <<47, 97>>}

Walk(worktree, ignore_empty_dir, fault, reverse, ub) ==
    [worktree |-> worktree, ignore_empty_dir |-> ignore_empty_dir,
     fault |-> fault, reverse |-> reverse, ub |-> ub]

Walked(istate) == [istate |-> istate, errno |-> FALSE, ret |-> 0, n |-> 0]

\* What seaf_repo_index_add (path) does to the index file and what it
\* returns, once the garbage collector is found stopped.
index_add(id, path0, fault, reverse, ub) ==
    LET path == SkipSlashes(path0)
        w == Walk(tree, TRUE, fault, reverse, ub)
    IN IF ~check_worktree_common(repo[id], id)
       THEN [path |-> "no_worktree", index |-> cache]
       ELSE IF fault.kind = "read"
       THEN [path |-> "index_unreadable", index |-> cache]
       ELSE CHOOSE out \in
               {IF ar.ret < 0 THEN [path |-> "add_failed", index |-> cache]
                ELSE IF fault.kind = "write"
                THEN [path |-> "index_write_failed", index |-> cache]
                ELSE [path |-> "done",
                      index |-> remove_deleted(ar.istate, w, path)] :
                   ar \in {add_recursive(w, Walked(cache), path)}} : TRUE

seaf_repo_index_add(id, path, fault, reverse, ub) ==
    /\ Idle
    /\ add = NoAdd
    /\ ~gc_started
    /\ id \in repo_tree
    /\ \E out \in {index_add(id, path, fault, reverse, ub)} :
          /\ cache' = out.index
          /\ last' = Result("index_add", out.path,
                            IF out.path = "done" THEN "ok" ELSE "fail")
    /\ repo' = [repo EXCEPT ![id] = RepoAfterCheck(repo[id], id)]
    /\ watched' = WatchedAfterCheck(repo[id], id, watched)
    /\ UNCHANGED <<tree, wt_name, job_vars, token_vars, repo_tree, tasks, db,
                   index_file, branch_db, commits, wt, purge, phase, todo,
                   add, gc_started, interrupted>>

\* seaf_repo_index_worktree_files: with a passphrase the old index file is
\* unlinked first, and a missing index file reads as an empty index.
seaf_repo_index_worktree_files(passwd, fault, reverse, ub) ==
    /\ Idle
    /\ LET old == IF passwd # NoPasswd
                  THEN [p \in WtPaths |-> "none"] ELSE cache
           w == Walk(tree, FALSE, fault, reverse, ub)
       IN \E ar \in {add_recursive(w, Walked(old), <<>>)} :
          \E path \in {IF fault.kind = "read" THEN "index_unreadable"
                        ELSE IF ar.ret < 0 THEN "add_failed"
                        ELSE IF fault.kind = "tree" THEN "tree_failed"
                        ELSE IF fault.kind = "write" THEN "index_write_failed"
                        ELSE "done"} :
             /\ cache' = IF path = "done"
                         THEN remove_deleted(ar.istate, w, <<>>) ELSE old
             /\ last' = Result("index_worktree_files", path,
                               IF path = "done" THEN "ok" ELSE "fail")
    /\ UNCHANGED <<tree, wt_name, job_vars, token_vars, repo_tree, repo, tasks,
                   watched, db, index_file, branch_db, commits, wt, purge,
                   phase, todo, add, gc_started, interrupted>>

\* strrchr (path, '/'): the place of the last slash, 0 when there is none.
strrchr(path) ==
    IF \A i \in DOMAIN path : path[i] # 47 THEN 0
    ELSE CHOOSE i \in DOMAIN path :
            path[i] = 47 /\ \A j \in (i + 1)..Len(path) : path[j] # 47

\* What an absolute path names: a path of the worktree /w, or nothing the
\* model holds (<<0>>).
Named(path) ==
    IF path \in WorktreeNames THEN <<>>
    ELSE IF HasPrefix(path, <<47, 119, 47>>)
            /\ SubSeq(path, 4, Len(path)) \in WtPaths
    THEN SubSeq(path, 4, Len(path))
    ELSE <<0>>

\* g_rmdir (dirs) == 0: dirs names a directory of the worktree that is empty.
g_rmdir(fs, dirs) ==
    /\ Named(dirs) \in WtPaths
    /\ fs[Named(dirs)] = "dir"
    /\ \A p \in WtPaths :
          p # Named(dirs) /\ Under(p, Named(dirs)) => fs[p] = "none"

\* The loop of remove_path: dirs is cut at its last slash; the loop goes on
\* while what is left is not spelled as worktree is, can be removed and has
\* a slash.
RECURSIVE remove_dirs(_, _, _)
remove_dirs(fs, worktree, dirs) ==
    LET cut == SubSeq(dirs, 1, strrchr(dirs) - 1)
    IN IF cut = worktree \/ ~g_rmdir(fs, cut) THEN fs
       ELSE IF strrchr(cut) = 0 THEN [fs EXCEPT ![Named(cut)] = "none"]
       ELSE remove_dirs([fs EXCEPT ![Named(cut)] = "none"], worktree, cut)

\* remove_path: unlink the file, then remove its parent directories while
\* rmdir succeeds, up to the directory whose path is equal to worktree.  A
\* name that is a directory cannot be unlinked.
remove_path(fs, worktree, name) ==
    LET path == g_build_path(worktree, name)
    IN IF fs[name] = "dir" THEN fs
       ELSE IF strrchr(path) = 0 THEN [fs EXCEPT ![name] = "none"]
       ELSE remove_dirs([fs EXCEPT ![name] = "none"], worktree, path)

\* A check that looks at the first name of rmlist only.
check_local_mod_first(istate, rmlist, worktree) ==
    IF rmlist # {}
       /\ LET name == CHOOSE n \in rmlist : \A m \in rmlist : Len(n) <= Len(m)
          IN worktree[name] \notin {"none", "dir"}
             /\ istate[name] # worktree[name]
    THEN -1 ELSE 0

\* check_local_mod: every name of rmlist is looked at; a name that cannot be
\* stat-ed or is a directory is passed over; -1 when ie_match_stat finds a
\* file that differs from its entry.
check_local_mod(istate, rmlist, worktree) ==
    IF \E name \in rmlist :
          /\ worktree[name] \notin {"none", "dir"}
          /\ istate[name] # worktree[name]
    THEN -1 ELSE 0

\* The worktree after remove_path ran on every name of rmlist.
RECURSIVE remove_paths(_, _, _)
remove_paths(fs, worktree, rmlist) ==
    IF rmlist = {} THEN fs
    ELSE LET name == CHOOSE n \in rmlist : TRUE
         IN remove_paths(remove_path(fs, worktree, name), worktree,
                         rmlist \ {name})

\* seaf_repo_index_rm: the entries whose name begins with path are removed
\* from the index and their files from the worktree, unless one of the files
\* has local modifications.
seaf_repo_index_rm(id, path0, fault) ==
    /\ Idle
    /\ add = NoAdd
    /\ id \in repo_tree
    /\ fault.kind \in {"none", "read", "write"}
    /\ LET path == SkipSlashes(path0)
           rmlist == {name \in WtPaths :
                         cache[name] # "none" /\ HasPrefix(name, path)}
           exit == IF fault.kind = "read" THEN "index_unreadable"
                   ELSE IF check_local_mod(cache, rmlist, tree) < 0
                   THEN "local_mod"
                   ELSE IF fault.kind = "write" THEN "index_write_failed"
                   ELSE "done"
       IN /\ tree' = IF exit \in {"index_write_failed", "done"}
                     THEN remove_paths(tree, wt_name, rmlist) ELSE tree
          /\ cache' = IF exit = "done"
                      THEN [name \in WtPaths |->
                              IF name \in rmlist THEN "none" ELSE cache[name]]
                      ELSE cache
          /\ last' = [Result("index_rm", exit,
                             IF exit = "done" THEN "ok" ELSE "fail") EXCEPT
                        !.live = IF exit = "index_write_failed" THEN 1 ELSE 0]
    /\ UNCHANGED <<wt_name, job_vars, token_vars, repo_tree, repo, tasks,
                   watched, db, index_file, branch_db, commits, wt, purge,
                   phase, todo, add, gc_started, interrupted>>

\* ------------------------------------------------- startup: merge recovery

\* seaf_repo_manager_clear_merge: UPDATE MergeInfo SET in_merge=0.
seaf_repo_manager_clear_merge(id, sql_ok) ==
    /\ Idle
    /\ id \in repo_tree
    /\ db' = IF sql_ok THEN [db EXCEPT !.in_merge = @ \ {id}] ELSE db
    /\ last' = Result("clear_merge", "done", IF sql_ok THEN "ok" ELSE "fail")
    /\ UNCHANGED <<walk_vars, job_vars, token_vars, repo_tree, repo, tasks, watched,
                   index_file, branch_db, commits, wt, purge, phase, todo, add,
                   gc_started, interrupted>>

\* get_merge_info takes any row of the repository as in_merge.
get_merge_info_any_row(d, id) == id \in d.MergeInfo

\* seaf_repo_manager_get_merge_info: info.in_merge is FALSE when there is no
\* row, else the row's in_merge column.  The SELECT is taken to succeed.
seaf_repo_manager_get_merge_info(d, id) ==
    id \in d.MergeInfo /\ id \in d.in_merge

\* The head of what is left of the walk over priv->repo_tree: the least id.
NextNode(ids) == CHOOSE id \in ids : \A o \in ids \ {id} : StrLess(id, o)

\* seaf_repo_manager_start is called after seaf_repo_manager_init; it goes
\* from recover_interrupted_merges to watch_repos and returns.
seaf_repo_manager_start ==
    /\ purge = NoPurge
    /\ \/ phase = "loaded" /\ phase' = "recover" /\ todo' = repo_tree
       \/ phase = "recover" /\ todo = {} /\ phase' = "watch"
          /\ todo' = repo_tree
       \/ phase = "watch" /\ todo = {} /\ phase' = "running" /\ todo' = {}
    /\ UNCHANGED <<walk_vars, job_vars, token_vars, repo_tree, repo, tasks, watched, db,
                   index_file, branch_db, commits, wt, purge, add, gc_started,
                   interrupted, last>>

\* recover_interrupted_merges, one node of the tree: a recover_merge_job is
\* scheduled when the merge info says in_merge.
recover_interrupted_merges ==
    /\ phase = "recover"
    /\ todo # {}
    /\ LET id == NextNode(todo)
       IN /\ todo' = todo \ {id}
          /\ jobs' = IF seaf_repo_manager_get_merge_info(db, id)
                     THEN [jobs EXCEPT ![id] = "scheduled"]
                     ELSE jobs
    /\ UNCHANGED <<walk_vars, sync_tasks, cdata, token_vars, repo_tree, repo, tasks, watched, db,
                   index_file, branch_db, commits, wt, purge, phase, add,
                   gc_started, interrupted, last>>

\* watch_repos, one node of the tree: an auto-sync repository with a valid
\* worktree is watched; a failure of the monitor is only logged.
watch_repos(watch_ok) ==
    /\ phase = "watch"
    /\ todo # {}
    /\ LET id == NextNode(todo)
       IN /\ todo' = todo \ {id}
          /\ watched' = IF repo[id].auto_sync /\ ~repo[id].worktree_invalid
                           /\ watch_ok
                        THEN watched \cup {id} ELSE watched
    /\ UNCHANGED <<walk_vars, job_vars, token_vars, repo_tree, repo, tasks, db,
                   index_file, branch_db, commits, wt, purge, phase, add,
                   gc_started, interrupted, last>>

\* merge_branches: the merge itself.  What it does to the worktree, the index
\* and the branches is left out; it returns 0 or -1.
merge_branches(id, r, merge_ok) == IF merge_ok THEN 0 ELSE -1

\* seaf_repo_merge: check_worktree_common, the branch is looked up, then
\* merge_branches.
seaf_repo_merge(id, r, branch, merge_ok) ==
    LET checked == [r |-> RepoAfterCheck(r, id),
                    watched |-> WatchedAfterCheck(r, id, watched),
                    branch |-> branch]
    IN IF ~check_worktree_common(r, id)
       THEN checked @@ [path |-> "no_worktree", ret |-> -1]
       ELSE IF branch_db[id][branch] = NoCommit
       THEN checked @@ [path |-> "no_branch", ret |-> -1]
       ELSE checked @@ [path |-> "merged",
                        ret |-> merge_branches(id, r, merge_ok)]

\* recover_merge_job, up to pthread_mutex_lock.
recover_merge_job_lock(id) ==
    /\ id \in repo_tree
    /\ jobs[id] = "scheduled"
    /\ LockFree(repo[id])
    /\ jobs' = [jobs EXCEPT ![id] = "locked"]
    /\ repo' = [repo EXCEPT ![id].lock = "merge"]
    /\ UNCHANGED <<walk_vars, sync_tasks, cdata, token_vars, repo_tree, tasks, watched, db,
                   index_file, branch_db, commits, wt, purge, phase, todo, add,
                   gc_started, interrupted, last>>

\* recover_merge_job, from pthread_mutex_lock on: seaf_repo_merge with branch
\* master, whose error is dropped, then pthread_mutex_unlock.
recover_merge_job(id, merge_ok) ==
    /\ id \in repo_tree
    /\ jobs[id] = "locked"
    /\ LET out == seaf_repo_merge(id, repo[id], "master", merge_ok)
       IN /\ repo' = [repo EXCEPT ![id] = [out.r EXCEPT !.lock = "free"]]
          /\ watched' = out.watched
          /\ last' = [Result("merge", out.path,
                             IF out.ret = 0 THEN "ok" ELSE "fail") EXCEPT
                        !.branch = out.branch,
                        !.locked = repo[id].lock = "merge"]
    /\ jobs' = [jobs EXCEPT ![id] = "done"]
    /\ UNCHANGED <<walk_vars, sync_tasks, cdata, token_vars, repo_tree, tasks, db, index_file,
                   branch_db, commits, wt, purge, phase, todo, add, gc_started,
                   interrupted>>

\* --------------------------------------------------------- property setter

\* The sync manager starts a sync task of a repository.
env_sync_start(id) ==
    /\ Idle
    /\ id \in repo_tree
    /\ sync_tasks[id] # "running"
    /\ sync_tasks' = [sync_tasks EXCEPT ![id] = "running"]
    /\ last' = NoCall
    /\ UNCHANGED <<walk_vars, jobs, cdata, token_vars, repo_tree, repo, tasks, watched, db,
                   index_file, branch_db, commits, wt, purge, phase, todo, add,
                   gc_started, interrupted>>

\* seaf_sync_manager_cancel_sync_task: the current task, if any, is cancelled.
seaf_sync_manager_cancel_sync_task(st, id) ==
    [st EXCEPT ![id] = IF @ = "running" THEN "cancelled" ELSE @]

\* seaf_repo_manager_set_repo_relay_id: the length, then is_peer_relay; the
\* property is saved and repo->relay_id set.
seaf_repo_manager_set_repo_relay_id(d, id, r, relay_id) ==
    IF relay_id # NoValue /\ strlen(relay_id) # 40
    THEN [ret |-> -1, path |-> "bad_length", r |-> r, db |-> d]
    ELSE IF ~is_peer_relay(relay_id)
    THEN [ret |-> -1, path |-> "not_relay", r |-> r, db |-> d]
    ELSE [ret |-> 0, path |-> "done", r |-> [r EXCEPT !.relay_id = relay_id],
          db |-> save_repo_property(d, id, "relay-id", relay_id)]

\* seaf_repo_manager_set_repo_property: seaf_repo_manager_get_repo must give
\* the repository.  auto-sync "true" sets the flag and watches; any other
\* value clears it, unwatches and cancels the sync task.  relay-id goes
\* through seaf_repo_manager_set_repo_relay_id; every other key is saved.
seaf_repo_manager_set_repo_property(id, key, value) ==
    /\ Idle
    /\ IF id \notin repo_tree \/ repo[id].delete_pending
       THEN /\ UNCHANGED <<repo, watched, sync_tasks, db>>
            /\ last' = Result("set_repo_property", "no_repo", "fail")
       ELSE IF key = "relay-id"
       THEN LET out == seaf_repo_manager_set_repo_relay_id(db, id, repo[id],
                                                           value)
            IN /\ repo' = [repo EXCEPT ![id] = out.r]
               /\ db' = out.db
               /\ last' = Result("set_repo_property", out.path,
                                 IF out.ret = 0 THEN "ok" ELSE "fail")
               /\ UNCHANGED <<watched, sync_tasks>>
       ELSE /\ repo' = [repo EXCEPT
                          ![id].auto_sync =
                              IF key = "auto-sync" THEN value = "true" ELSE @,
                          ![id].net_browsable =
                              IF key = "net-browsable" THEN value = "true"
                              ELSE @]
            /\ watched' = IF key # "auto-sync" THEN watched
                          ELSE IF value = "true" THEN watched \cup {id}
                          ELSE watched \ {id}
            /\ sync_tasks' =
                  IF key = "auto-sync" /\ value # "true"
                  THEN seaf_sync_manager_cancel_sync_task(sync_tasks, id)
                  ELSE sync_tasks
            /\ db' = save_repo_property(db, id, key, value)
            /\ last' = Result("set_repo_property", "done", "ok")
    /\ UNCHANGED <<walk_vars, jobs, cdata, token_vars, repo_tree, tasks, index_file, branch_db,
                   commits, wt, purge, phase, todo, add, gc_started,
                   interrupted>>

\* ------------------------------------------------------- temporary tokens

\* How many tokens gen_uuid gives.
MaxTokens == 2

\* How often the acceptances of one token are counted.
MaxAccepted == 2

\* The peers that ask for tokens and present them.
TokenPeers == {"peer", "stranger"}

\* seaf_repo_manager_generate_tmp_token: gen_uuid, then under db_lock REPLACE
\* INTO RepoTmpToken, whose key is (repo_id, peer_id); NULL when it fails.
seaf_repo_manager_generate_tmp_token(id, peer_id, sql_ok) ==
    /\ Idle
    /\ db_lock = "none"
    /\ Len(issued) < MaxTokens
    /\ IF sql_ok
       THEN /\ db' = [db EXCEPT !.RepoTmpToken =
                        {row \in @ : <<row[1], row[2]>> # <<id, peer_id>>}
                           \cup {<<id, peer_id, Len(issued) + 1>>}]
            /\ issued' = Append(issued, 0)
            /\ last' = Result("generate_tmp_token", "done", "ok")
       ELSE /\ UNCHANGED <<db, issued>>
            /\ last' = Result("generate_tmp_token", "sql_failed", "fail")
    /\ UNCHANGED <<walk_vars, job_vars, db_lock, calls, repo_tree, repo, tasks, watched,
                   index_file, branch_db, commits, wt, purge, phase, todo, add,
                   gc_started, interrupted>>

\* seaf_repo_manager_verify_tmp_token, up to pthread_mutex_lock: the caller
\* holds db_lock.
seaf_repo_manager_verify_tmp_token_lock(c, id, peer_id, token) ==
    /\ Idle
    /\ calls[c].pc = "idle"
    /\ db_lock = "none"
    /\ issued[token] < MaxAccepted
    /\ db_lock' = c
    /\ calls' = [calls EXCEPT ![c] = [pc |-> "locked", id |-> id,
                                      peer_id |-> peer_id, token |-> token]]
    /\ UNCHANGED <<walk_vars, job_vars, issued, repo_tree, repo, tasks, watched, db,
                   index_file, branch_db, commits, wt, purge, phase, todo, add,
                   gc_started, interrupted, last>>

\* seaf_repo_manager_verify_tmp_token, from pthread_mutex_lock on: the row of
\* (repo_id, peer_id, token) is looked up; when it is there the rows of
\* (repo_id, peer_id) are deleted, the result of the DELETE is dropped;
\* db_lock is released and what the SELECT found is returned.
seaf_repo_manager_verify_tmp_token(c, sql_ok) ==
    /\ calls[c].pc = "locked"
    /\ LET id == calls[c].id
           peer_id == calls[c].peer_id
           token == calls[c].token
           ret == <<id, peer_id, token>> \in db.RepoTmpToken
       IN /\ db' = IF ret /\ sql_ok
                   THEN [db EXCEPT !.RepoTmpToken =
                           {row \in @ : <<row[1], row[2]>> # <<id, peer_id>>}]
                   ELSE db
          /\ issued' = IF ret THEN [issued EXCEPT ![token] = @ + 1] ELSE issued
          /\ last' = [Result("verify_tmp_token", "done",
                             IF ret THEN "ok" ELSE "fail") EXCEPT
                        !.found = {token}]
    /\ db_lock' \in pthread_mutex_unlock(db_lock, c)
    /\ calls' = [calls EXCEPT ![c] = NoVerify]
    /\ UNCHANGED <<walk_vars, job_vars, repo_tree, repo, tasks, watched, index_file,
                   branch_db, commits, wt, purge, phase, todo, add, gc_started,
                   interrupted>>

\* --------------------------------------------------------- specifications

\* The step of an operation that fails, if any: the operations stop at the
\* first failure they look at, and the failures they do not look at (the
\* branch store's update, the RepoBranch row) come last.
Faults ==
    {"none", "commit", "count", "unpack", "worktree", "worktree_midway",
     "index", "tree", "write", "update"}

WorktreeResult(fault) ==
    CASE fault = "worktree" -> "fail"
      [] fault = "worktree_midway" -> "fail_midway"
      [] OTHER -> "ok"

\* The passphrase of the synced repository.
SyncedPasswd == <<"p">>

\* A repository is cloned and checked out, and its rows are written.
NextClone ==
    \E id \in OneRepo :
        \/ \E sql_ok \in BOOLEAN :
              \/ seaf_repo_manager_add_repo(id, sql_ok)
              \/ seaf_repo_manager_set_repo_passwd(id, SyncedPasswd, sql_ok,
                                                   sql_ok)
              \/ seaf_repo_manager_set_merge(id, sql_ok)
        \/ seaf_repo_manager_set_repo_relay_info(id)
        \/ \E bs \in SUBSET BranchNames : env_fetch(id, bs)
        \/ seaf_repo_manager_add_checkout_task(id)
        \/ checkout_repo_job_lock(id)
        \/ \E fault \in Faults \ {"tree", "write"} :
              checkout_repo_job(id, fault # "commit", fault # "count",
                                fault # "unpack", WorktreeResult(fault),
                                fault # "index", fault # "update")
        \/ checkout_job_done(id)

SpecClone == Init /\ [][NextClone]_vars

\* The encryption fields of its commits: encrypted under the current version
\* with the magic seaf_repo_generate_magic computes.
SyncedEnc(id) ==
    [encrypted |-> TRUE, enc_version |-> CURRENT_ENC_VERSION,
     magic |-> rawdata_to_hex(
                 seafile_generate_enc_key(id \o SyncedPasswd,
                                          CURRENT_ENC_VERSION))]

\* The state the clone of an encrypted repository leaves: one repository,
\* cloned with its first commit at branch local and, for some, at branch
\* master, checked out into its worktree, with its passphrase, keys, relay
\* and merge rows written.
Synced ==
    /\ repo_tree = OneRepo
    /\ repo = [id \in RepoIds |->
                 IF id \in OneRepo
                 THEN [seaf_repo_new EXCEPT
                         !.head = "local", !.head_commit = 1,
                         !.worktree = TRUE, !.worktree_invalid = FALSE,
                         !.encrypted = TRUE,
                         !.enc_version = CURRENT_ENC_VERSION,
                         !.magic = SyncedEnc(id).magic,
                         !.enc_key = seafile_generate_enc_key(
                                        SyncedPasswd, CURRENT_ENC_VERSION),
                         !.passwd = SyncedPasswd]
                 ELSE seaf_repo_new]
    /\ tasks = [id \in RepoIds |->
                  IF id \in OneRepo THEN [state |-> "done", success |-> TRUE]
                  ELSE NoTask]
    /\ watched = OneRepo
    /\ db = [Repo |-> OneRepo, DeletedRepo |-> {},
             RepoBranch |-> [id \in RepoIds |->
                               IF id \in OneRepo THEN "local" ELSE NoBranch],
             RepoProperty |-> OneRepo \X {"relay-addr", "relay-port", "worktree"},
             RepoPasswd |-> OneRepo, RepoKeys |-> OneRepo,
             MergeInfo |-> OneRepo, in_merge |-> OneRepo,
             RepoTmpToken |-> {},
             RepoLanToken |-> EmptyDb.RepoLanToken,
             passwd |-> [id \in RepoIds |->
                           IF id \in OneRepo THEN SyncedPasswd ELSE NoPasswd],
             key |-> [id \in RepoIds |->
                        IF id \in OneRepo
                        THEN rawdata_to_hex(seafile_generate_enc_key(
                                SyncedPasswd, CURRENT_ENC_VERSION))
                        ELSE NoMagic],
             value |-> EmptyDb.value]
    /\ index_file = [id \in RepoIds |-> IF id \in OneRepo THEN "t0" ELSE NoIndex]
    /\ \E master \in {NoCommit, 1} :
          branch_db = [id \in RepoIds |->
                         IF id \in OneRepo
                         THEN [b \in BranchNames |->
                                 IF b = "local" THEN 1 ELSE master]
                         ELSE [b \in BranchNames |-> NoCommit]]
    /\ commits = << [repo_id |-> CHOOSE id \in OneRepo : TRUE,
                     parent |-> NoCommit, second_parent |-> NoCommit,
                     root |-> "t0",
                     enc |-> SyncedEnc(CHOOSE id \in OneRepo : TRUE)] >>
    /\ wt = [id \in RepoIds |-> IF id \in OneRepo THEN "t0" ELSE "none"]
    /\ purge = NoPurge
    /\ todo = {}
    /\ add = NoAdd
    /\ gc_started = FALSE
    /\ interrupted = {}
    /\ last = NoCall
    /\ NoJobs
    /\ issued = <<>>

InitSynced == Synced /\ phase = "running" /\ NoFiles

\* The registry and its lookups, over several repositories.
NextLookup ==
    \/ \E id \in RepoIds :
          \/ \E sql_ok \in BOOLEAN :
                \/ seaf_repo_manager_add_repo(id, sql_ok)
                \/ seaf_repo_manager_mark_repo_deleted(id, sql_ok)
                \/ remove_repo_ondisk_step(sql_ok)
          \/ seaf_repo_manager_del_repo_begin(id)
          \/ seaf_repo_manager_get_repo(id)
          \/ seaf_repo_manager_repo_exists(id)
    \/ seaf_repo_manager_del_repo_end
    \/ \E p \in Prefixes :
          \/ seaf_repo_manager_get_repo_prefix(p)
          \/ seaf_repo_manager_repo_exists_prefix(p)
    \/ seaf_repo_manager_get_repo_list

SpecLookup == Init /\ [][NextLookup]_vars

\* seaf_repo_manager_start, and the jobs it schedules.
NextStartup ==
    \/ seaf_repo_manager_start
    \/ recover_interrupted_merges
    \/ \E watch_ok \in BOOLEAN : watch_repos(watch_ok)
    \/ \E id \in RepoIds :
          \/ recover_merge_job_lock(id)
          \/ \E merge_ok \in BOOLEAN : recover_merge_job(id, merge_ok)

\* A synced repository is deleted; the process stops and starts again.
NextPurge ==
    \/ \E id \in OneRepo :
          \/ seaf_repo_manager_del_repo_begin(id)
          \/ remove_deleted_repo(id)
          \/ \E sql_ok \in BOOLEAN :
                \/ seaf_repo_manager_mark_repo_deleted(id, sql_ok)
                \/ remove_repo_ondisk_step(sql_ok)
                \/ load_repo(id, sql_ok)
    \/ seaf_repo_manager_del_repo_end
    \/ remove_repo_ondisk_return
    \/ load_repos_next
    \/ NextStartup
    \/ Crash

SpecPurge == InitSynced /\ [][NextPurge]_vars

\* A synced repository: its worktree is edited, added and committed.
NextCommit ==
    \/ \E id \in OneRepo :
          \/ \E t \in Trees \cup {"none"} : env_worktree(id, t)
          \/ env_index_damaged(id)
          \/ seaf_repo_index_add_begin(id)
          \/ \E desc_empty, unmerged \in BOOLEAN :
               \E fault \in {"none", "tree", "write", "update"} :
                  seaf_repo_index_commit(id, desc_empty, unmerged,
                                         fault # "tree", fault # "write",
                                         fault # "update")
    \/ seaf_repo_index_add_poll
    \/ \E add_res \in AddResults, idx_ok \in BOOLEAN :
          seaf_repo_index_add_run(add_res, idx_ok)

SpecCommit == InitSynced /\ [][NextCommit]_vars

\* What surrounds a synced repository: commits are downloaded, and the
\* worktree is edited.
NextEnv ==
    \E id \in OneRepo :
        \/ \E t \in Trees \cup {"none"} : env_worktree(id, t)
        \/ env_download(id, "t1")

\* A synced repository is checked out again by a checkout task, and reset.
NextCheckout ==
    \/ NextEnv
    \/ \E id \in OneRepo :
        \/ \E c \in 0..MaxCommits :
             \E fault \in {"none", "unpack", "worktree", "worktree_midway",
                           "index", "update"} :
                seaf_repo_reset(id, c, fault # "unpack", WorktreeResult(fault),
                                fault # "index", fault # "update")
        \/ seaf_repo_manager_add_checkout_task(id)
        \/ checkout_repo_job_lock(id)
        \/ \E fault \in Faults \ {"tree", "write"} :
              checkout_repo_job(id, fault # "commit", fault # "count",
                                fault # "unpack", WorktreeResult(fault),
                                fault # "index", fault # "update")
        \/ checkout_job_done(id)

SpecCheckout == InitSynced /\ [][NextCheckout]_vars

\* Downloaded commits are checked out into the worktree of a synced
\* repository.
NextCheckoutCommit ==
    \/ NextEnv
    \/ \E id \in OneRepo :
        \/ env_index_damaged(id)
        \/ \E c \in 0..MaxCommits :
             \E fault \in {"none", "unpack", "worktree", "worktree_midway",
                           "index"} :
                seaf_repo_checkout_commit(id, c, fault # "unpack",
                                          WorktreeResult(fault),
                                          fault # "index")

SpecCheckoutCommit == InitSynced /\ [][NextCheckoutCommit]_vars

\* A synced repository is reverted to earlier and to downloaded commits.
NextRevert ==
    \/ NextEnv
    \/ \E id \in OneRepo :
          \E c \in 0..MaxCommits :
             \E fault \in Faults \ {"commit", "count"} :
                seaf_repo_revert(id, c, fault # "unpack", WorktreeResult(fault),
                                 fault # "index", fault # "tree",
                                 fault # "write", fault # "update")

SpecRevert == InitSynced /\ [][NextRevert]_vars

\* A synced repository: files are added while the garbage collector starts
\* and stops.
NextAdd ==
    \/ gc_toggle
    \/ \E id \in OneRepo :
          \/ \E t \in Trees \cup {"none"} : env_worktree(id, t)
          \/ seaf_repo_index_add_begin(id)
    \/ seaf_repo_index_add_poll
    \/ \E add_res \in AddResults, idx_ok \in BOOLEAN :
          seaf_repo_index_add_run(add_res, idx_ok)

SpecAdd == InitSynced /\ [][NextAdd]_vars

\* A synced repository is checked out again by checkout tasks that the caller
\* wants cancelled.
NextCancel ==
    \/ NextEnv
    \/ \E id \in OneRepo :
          \/ seaf_repo_manager_add_checkout_task(id)
          \/ checkout_repo_job_lock(id)
          \/ env_cancel_checkout(id)
          \/ \E fault \in Faults \ {"tree", "write"} :
                checkout_repo_job(id, fault # "commit", fault # "count",
                                  fault # "unpack", WorktreeResult(fault),
                                  fault # "index", fault # "update")
          \/ checkout_job_done(id)

SpecCancel == InitSynced /\ [][NextCancel]_vars

\* Checkout tasks are added for a synced repository while the job of an
\* earlier task has not finished.
NextAgain ==
    \/ NextCancel
    \/ \E id \in OneRepo : seaf_repo_manager_add_checkout_task_again(id)

SpecAgain == InitSynced /\ [][NextAgain]_vars

\* A synced repository after a restart: its interrupted merge is recovered
\* while a checkout task is added for it.
NextJobs ==
    \/ Crash
    \/ load_repos_next
    \/ NextStartup
    \/ \E id \in OneRepo :
          \/ load_repo(id, TRUE)
          \/ \E t \in {"none", "t0"} : env_worktree(id, t)
          \/ seaf_repo_manager_add_checkout_task(id)
          \/ checkout_repo_job_lock(id)
          \/ \E fault \in {"none", "commit", "unpack", "worktree", "index"} :
                checkout_repo_job(id, fault # "commit", TRUE,
                                  fault # "unpack", WorktreeResult(fault),
                                  fault # "index", TRUE)
          \/ checkout_job_done(id)

SpecJobs == InitSynced /\ [][NextJobs]_vars

\* The repositories followed through restarts.
StartRepos == {<<"a", "a">>, <<"a", "b">>}

\* The commit a clone of a repository of StartRepos stored.
FirstCommit(id) == IF id = <<"a", "a">> THEN 1 ELSE 2

\* Two repositories, each cloned and checked out into its worktree, in the
\* running daemon; neither has a merge-info row.
InitTwoSynced ==
    /\ repo_tree = StartRepos
    /\ repo = [id \in RepoIds |->
                 IF id \in StartRepos
                 THEN [seaf_repo_new EXCEPT !.head = "local",
                                            !.head_commit = FirstCommit(id),
                                            !.worktree = TRUE,
                                            !.worktree_invalid = FALSE]
                 ELSE seaf_repo_new]
    /\ tasks = [id \in RepoIds |->
                  IF id \in StartRepos THEN [state |-> "done", success |-> TRUE]
                  ELSE NoTask]
    /\ watched = StartRepos
    /\ db = [EmptyDb EXCEPT
               !.Repo = StartRepos,
               !.RepoBranch = [id \in RepoIds |->
                                 IF id \in StartRepos THEN "local"
                                 ELSE NoBranch],
               !.RepoProperty = StartRepos \X {"worktree"}]
    /\ index_file = [id \in RepoIds |->
                       IF id \in StartRepos THEN "t0" ELSE NoIndex]
    /\ branch_db = [id \in RepoIds |->
                      [b \in BranchNames |->
                         IF id \in StartRepos THEN FirstCommit(id)
                         ELSE NoCommit]]
    /\ commits = [c \in 1..2 |->
                    [repo_id |-> CHOOSE id \in StartRepos : FirstCommit(id) = c,
                     parent |-> NoCommit, second_parent |-> NoCommit,
                     root |-> "t0", enc |-> NoEnc]]
    /\ wt = [id \in RepoIds |-> IF id \in StartRepos THEN "t0" ELSE "none"]
    /\ purge = NoPurge
    /\ phase = "running"
    /\ todo = {}
    /\ add = NoAdd
    /\ gc_started = FALSE
    /\ interrupted = {}
    /\ last = NoCall
    /\ NoJobs
    /\ issued = <<>>
    /\ NoFiles

\* Merges begin and end in two synced repositories, and the process stops
\* and starts again.
NextStart ==
    \/ Crash
    \/ load_repos_next
    \/ NextStartup
    \/ \E id \in StartRepos :
          \/ load_repo(id, TRUE)
          \/ \E sql_ok \in BOOLEAN :
                \/ seaf_repo_manager_set_merge(id, sql_ok)
                \/ seaf_repo_manager_clear_merge(id, sql_ok)
          \/ \E t \in {"none", "t0"} : env_worktree(id, t)

SpecStart == InitTwoSynced /\ [][NextStart]_vars

\* What a clone left on disk of a repository that is encrypted or not, before
\* the daemon starts: its Repo row, branch local bound, both branches at its
\* first commit, whose encryption fields are those of the origin, the
\* worktree and its property, a merge-info row, and the passphrase and key
\* rows when the user had given the passphrase.
InitEnc ==
    /\ repo_tree = {}
    /\ repo = [id \in RepoIds |-> seaf_repo_new]
    /\ tasks = [id \in RepoIds |-> NoTask]
    /\ watched = {}
    /\ \E version \in EncVersions, origin \in Passwds, encrypted \in BOOLEAN :
       \E given \in (IF encrypted THEN Passwds \cup {NoPasswd} ELSE {NoPasswd}) :
       \E keys \in (IF given = NoPasswd THEN {FALSE} ELSE BOOLEAN) :
          /\ commits = [c \in 1..1 |->
                [repo_id |-> CHOOSE id \in OneRepo : TRUE,
                 parent |-> NoCommit, second_parent |-> NoCommit,
                 root |-> "t0",
                 enc |-> IF ~encrypted THEN NoEnc
                         ELSE [encrypted |-> TRUE, enc_version |-> version,
                               magic |->
                                 IF version >= 1
                                 THEN rawdata_to_hex(seafile_generate_enc_key(
                                         (CHOOSE id \in OneRepo : TRUE)
                                            \o origin, version))
                                 ELSE NoMagic]]]
          /\ db = [EmptyDb EXCEPT
                     !.Repo = OneRepo,
                     !.RepoBranch = [id \in RepoIds |->
                                       IF id \in OneRepo THEN "local"
                                       ELSE NoBranch],
                     !.RepoProperty = OneRepo \X {"worktree"},
                     !.MergeInfo = OneRepo,
                     !.in_merge = OneRepo,
                     !.RepoPasswd = IF given = NoPasswd THEN {} ELSE OneRepo,
                     !.passwd = [id \in RepoIds |->
                                   IF id \in OneRepo THEN given ELSE NoPasswd],
                     !.RepoKeys = IF keys THEN OneRepo ELSE {},
                     !.key = [id \in RepoIds |->
                                IF id \in OneRepo /\ keys
                                THEN rawdata_to_hex(
                                        seafile_generate_enc_key(given, version))
                                ELSE NoMagic]]
    /\ index_file = [id \in RepoIds |-> IF id \in OneRepo THEN "t0" ELSE NoIndex]
    /\ branch_db = [id \in RepoIds |->
                      [b \in BranchNames |->
                         IF id \in OneRepo THEN 1 ELSE NoCommit]]
    /\ wt = [id \in RepoIds |-> IF id \in OneRepo THEN "t0" ELSE "none"]
    /\ purge = NoPurge
    /\ phase = "purge_deleted"
    /\ todo = {}
    /\ add = NoAdd
    /\ gc_started = FALSE
    /\ interrupted = {}
    /\ last = NoCall
    /\ NoJobs
    /\ issued = <<>>
    /\ NoFiles

\* The daemon starts and loads the repository; magics are generated,
\* passphrases verified and set.
NextEnc ==
    \/ Crash
    \/ load_repos_next
    \/ NextStartup
    \/ \E id \in OneRepo :
          \/ load_repo(id, TRUE)
          \/ \E passwd \in Passwds :
                \/ seaf_repo_generate_magic(id, passwd)
                \/ seaf_repo_verify_passwd(id, passwd)
                \/ \E passwd_ok, keys_ok \in BOOLEAN :
                      seaf_repo_manager_set_repo_passwd(id, passwd, passwd_ok,
                                                        keys_ok)

SpecEnc == InitEnc /\ [][NextEnc]_vars

\* Properties of a synced repository, and of ids the manager does not have,
\* are set while sync tasks start and the repository is marked deleted.
NextProperty ==
    \E id \in RepoIds :
        \/ env_sync_start(id)
        \/ \E sql_ok \in BOOLEAN : seaf_repo_manager_mark_repo_deleted(id, sql_ok)
        \/ \E key \in {"auto-sync", "net-browsable", "email"} :
              \E value \in FlagValues :
                 seaf_repo_manager_set_repo_property(id, key, value)
        \/ \E value \in PeerIds \cup {NoValue} :
              seaf_repo_manager_set_repo_property(id, "relay-id", value)

SpecProperty == InitSynced /\ [][NextProperty]_vars

\* The worktree of a synced repository is set, invalidated and validated,
\* auto-sync is switched, and the repository is marked deleted and deleted.
NextWatch ==
    \/ \E id \in OneRepo :
          \/ seaf_repo_manager_invalidate_repo_worktree(id)
          \/ seaf_repo_manager_validate_repo_worktree(id)
          \/ seaf_repo_manager_del_repo_begin(id)
          \/ \E value \in FlagValues :
                seaf_repo_manager_set_repo_property(id, "auto-sync", value)
          \/ \E sql_ok \in BOOLEAN :
                \/ seaf_repo_manager_set_repo_worktree(id, sql_ok)
                \/ seaf_repo_manager_mark_repo_deleted(id, sql_ok)
    \/ \E sql_ok \in BOOLEAN : remove_repo_ondisk_step(sql_ok)
    \/ seaf_repo_manager_del_repo_end

SpecWatch == InitSynced /\ [][NextWatch]_vars

\* ------------------------------------------------------------ LAN tokens

\* A token is a C string: its bytes, without the terminating 0. NoToken is
\* the NULL pointer.
NoToken == <<"NULL">>

\* DEFAULT_REPO_TOKEN: the macro of a header that is not part of this source.
DEFAULT_REPO_TOKEN == <<"d", "e">>

\* The tokens set for a repository, and the ones presented for it.
LanTokens == {<<"t">>, <<"t", "x">>}
Presented ==
    {NoToken, <<>>, <<"d">>, <<"d", "e">>, <<"d", "e", "f">>, <<"d", "e", "f", "g">>,
     <<"t">>, <<"t", "x">>, <<"x">>}

\* seaf_repo_manager_get_repo_lantoken: under db_lock, SELECT token FROM
\* RepoLanToken; NULL when there is no row or the query fails.
get_repo_lantoken(id, sql_ok) ==
    IF sql_ok THEN db.RepoLanToken[id] ELSE NoToken

\* memcmp(s1, s2, n) == 0 where s1 is a string in a buffer of Len(s1) + 1
\* bytes, the last one 0, and s2 a string of at least n bytes: "equal",
\* "differ", or "overread" when n reaches beyond the buffer of s1.
memcmp(s1, s2, n) ==
    IF n > Len(s1) + 1 THEN "overread"
    ELSE IF n = Len(s1) + 1 THEN "differ"
    ELSE IF SubSeq(s1, 1, n) = SubSeq(s2, 1, n) THEN "equal" ELSE "differ"

\* seaf_repo_manager_set_repo_lantoken: under db_lock, REPLACE INTO
\* RepoLanToken; -1 when the statement fails.
seaf_repo_manager_set_repo_lantoken(id, token, sql_ok) ==
    /\ Idle
    /\ db_lock = "none"
    /\ IF sql_ok
       THEN /\ db' = [db EXCEPT !.RepoLanToken[id] = token]
            /\ last' = [Result("set_repo_lantoken", "done", "ok")
                          EXCEPT !.locked = TRUE]
       ELSE /\ UNCHANGED db
            /\ last' = [Result("set_repo_lantoken", "sql_failed", "fail")
                          EXCEPT !.locked = TRUE]
    /\ UNCHANGED <<walk_vars, job_vars, token_vars, repo_tree, repo, tasks,
                   watched, index_file, branch_db, commits, wt, purge,
                   phase, todo, add, gc_started, interrupted>>

\* seaf_repo_manager_verify_repo_lantoken: 0 for a NULL token; otherwise the
\* first strlen(token) bytes of the stored token, or of DEFAULT_REPO_TOKEN
\* when none was read, are compared with the token. A token longer than the
\* buffer compared with makes memcmp read beyond it: the mismatch at the
\* terminating 0 is reported (0), or the read faults.
seaf_repo_manager_verify_repo_lantoken(id, token, sql_ok, faults) ==
    /\ Idle
    /\ db_lock = "none"
    /\ LET my_token == get_repo_lantoken(id, sql_ok)
           cmp == IF my_token = NoToken
                  THEN memcmp(DEFAULT_REPO_TOKEN, token, Len(token))
                  ELSE memcmp(my_token, token, Len(token))
       IN /\ faults => token # NoToken /\ cmp = "overread"
          /\ last' = [Result("verify_repo_lantoken",
                             IF token = NoToken THEN "null_token" ELSE cmp,
                             IF token = NoToken THEN "0"
                             ELSE IF cmp = "equal" THEN "1"
                             ELSE IF faults THEN "fault" ELSE "0")
                        EXCEPT !.locked = (token # NoToken),
                               !.stored = (my_token # NoToken)]
    /\ UNCHANGED <<walk_vars, job_vars, token_vars, repo_tree, repo, tasks,
                   watched, db, index_file, branch_db, commits, wt, purge,
                   phase, todo, add, gc_started, interrupted>>

\* Peers set LAN tokens for the repositories and present tokens for them.
NextLanToken ==
    \E id \in RepoIds, sql_ok \in BOOLEAN :
       \/ \E token \in LanTokens :
             seaf_repo_manager_set_repo_lantoken(id, token, sql_ok)
       \/ \E token \in Presented, faults \in BOOLEAN :
             seaf_repo_manager_verify_repo_lantoken(id, token, sql_ok, faults)

SpecLanToken == InitSynced /\ [][NextLanToken]_vars

\* Tokens are generated for peers of a synced repository and presented by
\* two callers at once.
NextToken ==
    \/ \E id \in OneRepo, peer_id \in TokenPeers :
          \/ \E sql_ok \in BOOLEAN :
                seaf_repo_manager_generate_tmp_token(id, peer_id, sql_ok)
          \/ \E c \in Callers, token \in 1..Len(issued) :
                seaf_repo_manager_verify_tmp_token_lock(c, id, peer_id, token)
    \/ \E c \in Callers, sql_ok \in BOOLEAN :
          seaf_repo_manager_verify_tmp_token(c, sql_ok)

SpecToken == InitSynced /\ [][NextToken]_vars

\* A synced repository is deleted while tokens are generated for its peers
\* and presented.
NextStore ==
    \/ NextToken
    \/ \E id \in OneRepo : seaf_repo_manager_del_repo_begin(id)
    \/ \E sql_ok \in BOOLEAN : remove_repo_ondisk_step(sql_ok)
    \/ seaf_repo_manager_del_repo_end

SpecStore == InitSynced /\ [][NextStore]_vars

\* A synced repository with any worktree and any index file: paths are added
\* to the index and removed from it.
InitFiles ==
    /\ Synced
    /\ phase = "running"
    /\ \A id \in RepoIds : branch_db[id]["master"] = NoCommit
    /\ tree \in Worktrees
    /\ cache \in Caches

InitWalk == InitFiles /\ wt_name = <<47, 119>>

NextWalk ==
    \/ \E id \in OneRepo, path \in WalkArgs, fault \in WalkFaults :
          \E reverse, ub \in (IF path = <<>> THEN BOOLEAN ELSE {FALSE}) :
             seaf_repo_index_add(id, path, fault, reverse, ub)
    \/ \E passwd \in {NoPasswd, SyncedPasswd}, fault \in WalkFaults,
          reverse \in BOOLEAN, ub \in BOOLEAN :
          seaf_repo_index_worktree_files(passwd, fault, reverse, ub)

SpecWalk == InitWalk /\ [][NextWalk]_vars

\* The same repository: paths are removed from the index and the worktree.
NextRm ==
    \E id \in OneRepo, path \in WalkArgs, fault \in WalkFaults :
       seaf_repo_index_rm(id, path, fault)

InitRm == InitFiles /\ wt_name \in WorktreeNames

SpecRm == InitRm /\ [][NextRm]_vars

\* ----------------------------------------------------------------- claims

\* The persisted state of a repository other than its Repo row and its
\* tombstone is gone.
RestGone(id) ==
    /\ index_file[id] = NoIndex
    /\ BranchList(id) = {}
    /\ db.RepoBranch[id] = NoBranch
    /\ \A row \in db.RepoProperty : row[1] # id
    /\ id \notin db.RepoPasswd
    /\ id \notin db.RepoKeys
    /\ id \notin db.MergeInfo

\* The head of a repository, in memory and persisted, is the same before and
\* after a step.
HeadUnchanged(id) ==
    /\ repo'[id].head = repo[id].head
    /\ repo'[id].head_commit = repo[id].head_commit
    /\ branch_db'[id] = branch_db[id]
    /\ db'.RepoBranch[id] = db.RepoBranch[id]

\* C1: no lookup returns or reports a repository that is delete-pending:
\* what get_repo, get_repo_prefix and get_repo_list return is not
\* delete-pending, and repo_exists and repo_exists_prefix report TRUE only
\* when the registry holds a repository that is not delete-pending.
C1_DeletePendingHidden ==
    /\ \A id \in last.found : ~repo[id].delete_pending
    /\ last.exists => \E id \in repo_tree : ~repo[id].delete_pending

\* C2: when the commit store fails to take the commit, seaf_repo_index_commit
\* fails with an Internal error and the head branch, in memory and in the
\* branch store, still names the commit it named before; no commit is added.
C2_WriteFailureKeepsBranch ==
    [][(last'.op = "index_commit" /\ last'.path = "commit_write_failed") =>
          /\ last'.ret = "fail"
          /\ last'.err = "Internal"
          /\ commits' = commits
          /\ \A id \in OneRepo : HeadUnchanged(id)]_vars

\* C2 witness: a commit has just failed at the commit store.
C2_Witness ==
    /\ last.op = "index_commit"
    /\ last.path = "commit_write_failed"
    /\ last.ret = "fail"

\* C3: a commit made by seaf_repo_index_commit has the head commit of the
\* call as its parent and, with unmerged, branch master's commit as its
\* second parent; with unmerged and no branch master the call fails with
\* NoMasterBranch, adds no commit and leaves the branch where it was.
C3_ParentsOrNoMasterBranch ==
    [][\A id \in OneRepo :
          /\ (last'.op = "index_commit" /\ last'.path = "done") =>
                /\ Len(commits') = Len(commits) + 1
                /\ commits'[Len(commits')].parent = repo[id].head_commit
                /\ commits'[Len(commits')].second_parent
                      \in {NoCommit, branch_db[id]["master"]}
                /\ repo'[id].head_commit = Len(commits')
          /\ (last'.op = "index_commit" /\ last'.path = "no_master") =>
                /\ last'.ret = "fail"
                /\ last'.err = "NoMasterBranch"
                /\ commits' = commits
                /\ HeadUnchanged(id)]_vars

\* C4, as the claim has it: seaf_repo_index_commit with an empty description,
\* unmerged false and an index equal to the head commit's tree returns an
\* error, adds no commit, leaves the branch and emits no repo-committed.
C4_NoDiffReturnsError ==
    [][\A id \in OneRepo : \A fault \in {"none", "tree", "write", "update"} :
          (/\ index_file[id] # "corrupt"
           /\ IndexTree(index_file[id]) = HeadRoot(repo[id])
           /\ seaf_repo_index_commit(id, TRUE, FALSE, fault # "tree",
                                     fault # "write", fault # "update"))
          => /\ last'.ret = "fail"
             /\ last'.err # "none"
             /\ commits' = commits
             /\ HeadUnchanged(id)
             /\ ~last'.emitted]_vars

\* C4, amended: seaf_repo_index_commit with an empty description, unmerged
\* false and an index equal to the head commit's tree returns NULL without
\* setting an error, adds no commit, leaves the branch and emits no
\* repo-committed.
C4_NoDiffIsNoOp ==
    [][\A id \in OneRepo : \A fault \in {"none", "tree", "write", "update"} :
          (/\ index_file[id] # "corrupt"
           /\ IndexTree(index_file[id]) = HeadRoot(repo[id])
           /\ seaf_repo_index_commit(id, TRUE, FALSE, fault # "tree",
                                     fault # "write", fault # "update"))
          => /\ last'.ret = "fail"
             /\ last'.err = "none"
             /\ commits' = commits
             /\ HeadUnchanged(id)
             /\ ~last'.emitted]_vars

\* C4 witness: a commit without description has just found nothing to commit.
C4_Witness ==
    /\ last.op = "index_commit"
    /\ last.path = "no_diff"
    /\ \E id \in OneRepo : IndexTree(index_file[id]) = HeadRoot(repo[id])

\* C5: the checkout of a checkout task and seaf_repo_reset change the head
\* (repo->head, its commit, the branch store's row, the RepoBranch row) only
\* when they return 0, and then the worktree and the index file hold the tree
\* of the commit the head now names; when they return -1 the head is as it
\* was.
C5_HeadMovesAfterIndexWrite ==
    [][\A id \in OneRepo :
          last'.op \in {"checkout", "reset"} =>
             /\ last'.ret = "fail" => HeadUnchanged(id)
             /\ ~HeadUnchanged(id) =>
                   /\ last'.ret = "ok"
                   /\ index_file'[id] = commits[repo'[id].head_commit].root
                   /\ wt'[id] = commits[repo'[id].head_commit].root]_vars

\* C5 witness: a reset has just failed at the index write, after the
\* worktree was updated.
C5_Witness ==
    /\ last.op = "reset"
    /\ last.path = "index_write_failed"
    /\ last.ret = "fail"
    /\ \E id \in OneRepo : wt[id] # IndexTree(index_file[id])

C7_RevertRollsBack ==
    [][\A id \in OneRepo :
          last'.op = "revert" =>
             /\ last'.ret = "fail" =>
                   /\ wt'[id] = wt[id]
                   /\ index_file'[id] = index_file[id]
                   /\ HeadUnchanged(id)
             /\ last'.ret = "ok" =>
                   /\ Len(commits') = Len(commits) + 1
                   /\ repo'[id].head_commit = Len(commits')]_vars

\* C8, as the claim has it: when the Repo row of a repository is deleted,
\* its index file, branches, branch binding, property, passphrase, key and
\* merge-info rows are gone already.
C8_RepoRowDeletedLast ==
    [][\A id \in OneRepo :
          (id \in db.Repo /\ id \notin db'.Repo) => RestGone(id)]_vars

\* C8, amended: the Repo row is deleted first: a step of the purge of a
\* repository removes its tombstone, index file, branches, branch binding,
\* property, passphrase, key or merge-info rows only when its Repo row is
\* gone.
C8_RepoRowDeletedFirst ==
    [][\A id \in OneRepo :
          (/\ purge.id = id
           /\ \/ db'.DeletedRepo # db.DeletedRepo
              \/ index_file'[id] # index_file[id]
              \/ branch_db'[id] # branch_db[id]
              \/ db'.RepoBranch[id] # db.RepoBranch[id]
              \/ db'.RepoProperty # db.RepoProperty
              \/ db'.RepoPasswd # db.RepoPasswd
              \/ db'.RepoKeys # db.RepoKeys
              \/ db'.MergeInfo # db.MergeInfo)
          => id \notin db.Repo]_vars

\* C8 witness: a purge under way has deleted the Repo row and the tombstone
\* and nothing else yet.
C8_Witness ==
    \E id \in OneRepo :
        /\ purge.id = id
        /\ purge.pc \in 2..Len(PurgeOrder)
        /\ id \notin db.Repo
        /\ id \notin db.DeletedRepo
        /\ index_file[id] # NoIndex
        /\ id \in db.RepoPasswd

\* C9: once a purge of a repository was cut short by a crash and the startup
\* after it has finished loading, no persisted state of the repository is
\* left and the repository is not in the registry.
C9_NothingLeftAfterRestart ==
    \A id \in interrupted :
        phase = "running" =>
           /\ id \notin repo_tree
           /\ id \notin db.Repo
           /\ id \notin db.DeletedRepo
           /\ RestGone(id)

\* C10: seaf_repo_index_add stores no block or file object while the
\* garbage collector is running.
C10_NoStoreWhileGC ==
    [][(last'.op = "index_add" /\ last'.stored) => ~gc_started]_vars

\* C11: the checkout job and the merge-recovery job of a repository are
\* never both between their pthread_mutex_lock and pthread_mutex_unlock, and
\* each holds the repository's lock exactly while it is there: the lock is
\* released on every way out of the job, failed or not.
C11_LockSerializesJobs ==
    \A id \in RepoIds :
        /\ ~(tasks[id].state = "locked" /\ jobs[id] = "locked")
        /\ repo[id].lock = "checkout" <=> tasks[id].state = "locked"
        /\ repo[id].lock = "merge" <=> jobs[id] = "locked"

\* C11 witness: the checkout job has failed and left, and the merge-recovery
\* job that was scheduled at startup is now in its merge section.
C11_Witness ==
    \E id \in OneRepo :
        /\ last.op = "checkout" /\ last.ret = "fail"
        /\ tasks[id].state = "ran" /\ ~tasks[id].success
        /\ jobs[id] = "locked"
        /\ repo[id].lock = "merge"

C13_CancelStopsCheckout ==
    [][\A id \in OneRepo :
          (/\ last.op = "cancel_checkout"
           /\ tasks[id].state = "locked"
           /\ tasks'[id].state = "ran") =>
             ~tasks'[id].success]_vars

\* C14: when seaf_repo_verify_passwd(R, q) is called after
\* seaf_repo_generate_magic(R, p), it succeeds if and only if q = p, whatever
\* the encryption version of R.
C14_VerifyIffSamePassphrase ==
    [][\A id \in OneRepo, q \in Passwds :
          (last.op = "generate_magic" /\ seaf_repo_verify_passwd(id, q)) =>
             (last'.ret = "ok" <=> q = last.passwd)]_vars

C16_HeadIffBranchBound ==
    \A id \in repo_tree :
        repo[id].head # NoBranch <=> db.RepoBranch[id] # NoBranch

\* C17: repo.setwktree is published when a repository with a usable worktree
\* is added or loaded and whenever its worktree goes from invalid to valid;
\* repo.unsetwktree is published when such a repository is removed and
\* whenever its worktree goes from valid to invalid.
C17_WorktreeNotifications ==
    [][\A id \in RepoIds :
          /\ (/\ id \in repo_tree /\ id \in repo_tree'
              /\ repo[id].worktree_invalid /\ ~repo'[id].worktree_invalid) =>
                "repo.setwktree" \in last'.notify
          /\ (/\ id \in repo_tree /\ id \in repo_tree'
              /\ ~repo[id].worktree_invalid /\ repo'[id].worktree_invalid) =>
                "repo.unsetwktree" \in last'.notify
          /\ (/\ id \notin repo_tree /\ id \in repo_tree'
              /\ seaf_repo_check_worktree(repo'[id], id)) =>
                "repo.setwktree" \in last'.notify
          /\ (/\ id \in repo_tree /\ id \notin repo_tree' /\ phase' = "running"
              /\ seaf_repo_check_worktree(repo[id], id)) =>
                "repo.unsetwktree" \in last'.notify]_vars

C20_TokenAcceptedOnce ==
    \A token \in 1..Len(issued) : issued[token] <= 1

\* C25: seaf_repo_manager_get_repo_prefix(p) returns the repository whose id
\* begins with p when exactly one registered repository has that prefix,
\* nothing when none has, and reports ambiguity, returning none of them, when
\* several have.
C25_PrefixUniqueOrAmbiguous ==
    [][\A p \in Prefixes :
          seaf_repo_manager_get_repo_prefix(p) =>
             LET matches == {r \in repo_tree : HasPrefix(r, p)}
             IN /\ Cardinality(matches) = 1 => last'.found = matches
                /\ matches = {} => last'.found = {}
                /\ Cardinality(matches) > 1 =>
                      last'.found = {} /\ last'.err = "Ambiguous"]_vars

\* C27: every SQL write to the store is executed while db_lock is held by
\* the executing thread: the store never changes in a step of a thread other
\* than the one that holds db_lock.
C27_StoreWritesUnderDbLock ==
    [][db' # db =>
          \/ db_lock = "none"
          \/ db_lock = "purge" /\ purge'.pc # purge.pc
          \/ /\ db_lock \in Callers
             /\ calls[db_lock].pc = "locked"
             /\ calls'[db_lock].pc = "idle"]_vars

\* C26: every insertion into or deletion from the repository map is done
\* with the writer lock held, and every lookup or enumeration of it with the
\* reader lock held.
C26_MapUsedUnderLock ==
    /\ last.op \in {"add_repo", "del_repo"} =>
          last.rwlock \in {"wrlock", "unused"}
    /\ last.op \in {"get_repo", "get_repo_prefix", "repo_exists",
                    "repo_exists_prefix", "get_repo_list"} =>
          last.rwlock \in {"rdlock", "unused"}

\* C24: when an operation has failed to load the index file of a
\* repository, the repository is marked index-corrupted.
C24_IndexLoadFailureMarked ==
    last.path = "index_unreadable" =>
       \A id \in OneRepo : repo[id].index_corrupted

\* C28: when an index operation returns, on success or on failure, no index
\* that it loaded or produced is left undiscarded.
C28_EveryIndexDiscarded ==
    last.op # "none" => last.live = 0

\* The components of a path: the names between its slashes.
RECURSIVE Components(_)
Components(p) ==
    IF \A i \in DOMAIN p : p[i] # 47 THEN <<p>>
    ELSE LET k == CHOOSE i \in DOMAIN p :
                     p[i] = 47 /\ \A j \in 1..(i - 1) : p[j] # 47
         IN <<SubSeq(p, 1, k - 1)>> \o Components(SubSeq(p, k + 1, Len(p)))

\* A path that add is to leave out: a component ends in a space or holds a
\* control byte or a forbidden character, or the basename matches an ignore
\* pattern.
LeftOut(p) ==
    LET c == Components(p)
    IN \/ \E i \in DOMAIN c :
             \/ c[i] # <<>> /\ c[i][Len(c[i])] = 32
             \/ \E k \in DOMAIN c[i] : c[i][k] \in illegals \cup 1..31
       \/ \E i \in DOMAIN ignore_table :
             g_pattern_match_string(ignore_table[i], c[Len(c)])

\* C21: for every path argument given to add, the walk adds no entry whose
\* path has a component ending in a space or holding a control byte or a
\* forbidden character, or whose basename matches an ignore pattern; every
\* other regular file under the path gets an entry.
C21_AddLeavesOutBadNames ==
    [][\A id \in OneRepo, path \in WalkArgs, reverse \in BOOLEAN :
          seaf_repo_index_add(id, path, NoFault, reverse, FALSE)
             /\ last'.ret = "ok" =>
          \A p \in WtPaths \ {<<>>} :
             /\ cache'[p] # "none" /\ cache'[p] # cache[p] => ~LeftOut(p)
             /\ (tree[p] = "v1" /\ Under(p, SkipSlashes(path))
                   /\ ~LeftOut(p)) => cache'[p] = "v1"]_vars

\* A directory with no entry that survives the ignore and trailing-space
\* rules.
EmptyDir(d) ==
    \A p \in WtPaths :
       (p # d /\ Under(p, d) /\ tree[p] # "none") => LeftOut(p)

\* C22: walking the whole worktree, an empty directory (none of its entries
\* survives the ignore and trailing-space rules) yields its sentinel entry
\* when ignore_empty_dir is false and none when it is true; a directory from
\* which an entry is indexed yields no sentinel entry.
C22_SentinelForEmptyDir ==
    [][\A d \in {<<>>, <<97>>} :
          /\ \A passwd \in {SyncedPasswd}, reverse \in BOOLEAN :
                seaf_repo_index_worktree_files(passwd, NoFault, reverse, FALSE)
                   /\ last'.ret = "ok" /\ tree[d] = "dir" =>
                   /\ EmptyDir(d) => cache'[d] = "dir"
                   /\ (\E p \in WtPaths :
                         p # d /\ Under(p, d) /\ cache'[p] # "none") =>
                         cache'[d] # "dir"
          /\ \A id \in OneRepo, reverse \in BOOLEAN :
                seaf_repo_index_add(id, <<>>, NoFault, reverse, FALSE)
                   /\ last'.ret = "ok" /\ tree[d] = "dir"
                   /\ cache[d] = "none" => cache'[d] = "none"]_vars

\* The fault happens during add (path): what fails lies under the path and is
\* there to be stat-ed, indexed, opened or read.
FaultHappens(fault, path) ==
    /\ fault.kind \in {"stat", "index", "opendir", "readdir"}
    /\ Under(fault.path, SkipSlashes(path))
    /\ tree[fault.path] # "none"
    /\ fault.kind = "index" => tree[fault.path] = "v1"
    /\ fault.kind \in {"opendir", "readdir"} => tree[fault.path] = "dir"

\* C23: when stat-ing or indexing a file, or opening or reading a directory,
\* fails anywhere under the path given to seaf_repo_index_add, the call
\* returns failure and the index file is not rewritten.
C23_AddReportsEveryFailure ==
    [][\A id \in OneRepo, path \in WalkArgs, fault \in WalkFaults,
          reverse \in BOOLEAN :
          seaf_repo_index_add(id, path, fault, reverse, FALSE)
             /\ FaultHappens(fault, path) =>
          last'.ret = "fail" /\ cache' = cache]_vars

\* C29: remove_deleted (index, worktree, prefix) removes exactly the entries
\* under prefix whose file is gone or has changed its type (a file entry that
\* is no regular file any more, a sentinel entry whose directory is gone, is
\* no directory or is no longer empty) and leaves every other entry as it is.
C29_RemoveDeletedExact ==
    \A prefix \in {SkipSlashes(path) : path \in WalkArgs} :
       LET w == Walk(tree, TRUE, NoFault, FALSE, FALSE)
           Changed(name) ==
              IF cache[name] = "dir"
              THEN tree[name] # "dir" \/ ~is_empty_dir(w, name)
              ELSE tree[name] # "v1"
       IN remove_deleted(cache, w, prefix) =
             [name \in WtPaths |->
                IF cache[name] # "none" /\ Under(name, prefix)
                   /\ Changed(name)
                THEN "none" ELSE cache[name]]

\* A file selected by rm (path) has local modifications.
LocalMod(path) ==
    \E name \in WtPaths :
       /\ cache[name] # "none" /\ HasPrefix(name, SkipSlashes(path))
       /\ tree[name] = "v1" /\ cache[name] # "v1"

C40_ExistsPrefixIffSomeIdHasPrefix ==
    [][\A p \in Prefixes :
          seaf_repo_manager_repo_exists_prefix(p) =>
             (last'.exists <=> \E r \in repo_tree : HasPrefix(r, p))]_vars

\* C31: seaf_repo_index_rm (path) removes from the index and from the
\* worktree only the entry named path and the entries inside the directory
\* path; an entry whose name merely begins with the same bytes stays in the
\* index and on disk.
C31_RmLeavesSiblings ==
    [][\A id \in OneRepo, path \in WalkArgs, fault \in WalkFaults :
          seaf_repo_index_rm(id, path, fault) =>
             \A name \in WtPaths :
                (cache[name] # "none" /\ ~Under(name, SkipSlashes(path))) =>
                   /\ cache'[name] = cache[name]
                   /\ tree[name] = "v1" => tree'[name] = "v1"]_vars

\* C32: remove_path never removes the directory of the worktree itself,
\* however its path is spelled and even when it becomes empty.
C32_WorktreeRootNeverRemoved == tree[<<>>] = "dir"

\* C33: db_lock is never unlocked by a thread that does not hold it: when
\* remove_repo_ondisk reaches its pthread_mutex_unlock, it holds the mutex.
C33_DbLockUnlockedByHolder ==
    [][\A sql_ok \in BOOLEAN :
          (remove_repo_ondisk_step(sql_ok) /\ purge'.pc = PurgeDone) =>
             db_lock = "purge"]_vars

\* C38: seaf_repo_manager_verify_repo_lantoken returns 1 only if the token
\* presented equals, in full, the token stored for the repository, or the
\* default token when none is stored: the empty token, a proper prefix and
\* NULL are rejected.
C38_LanTokenMatchesInFull ==
    [][\A id \in RepoIds, token \in Presented, faults \in BOOLEAN :
          (seaf_repo_manager_verify_repo_lantoken(id, token, TRUE, faults)
             /\ last'.ret = "1") =>
                token = IF db.RepoLanToken[id] = NoToken
                        THEN DEFAULT_REPO_TOKEN ELSE db.RepoLanToken[id]]_vars

\* C34: a repository is watched by the worktree monitor exactly when it is
\* registered, auto_sync is set, its worktree is valid and it is neither
\* marked deleted nor deleted.
C34_WatchedIffAutoSyncValidLive ==
    \A id \in RepoIds :
       id \in watched <=>
          /\ id \in repo_tree
          /\ repo[id].auto_sync
          /\ ~repo[id].worktree_invalid
          /\ ~repo[id].delete_pending

\* C35: the CheckoutTask that the CheckoutData of a scheduled or running job
\* references is the task in the table, neither replaced nor freed, until the
\* done callback of the job has run.
C35_JobTaskStaysInTable ==
    \A id \in RepoIds :
       tasks[id].state \in {"scheduled", "locked", "ran"} => ~cdata[id].freed

\* C36: the worktree is saved as a property, made valid and watched only when
\* the task succeeded: after a task whose success flag is false the saved
\* worktree property and worktree_invalid are what they were.
C36_FailedTaskLeavesWorktree ==
    [][\A id \in RepoIds :
          (checkout_job_done(id) /\ ~tasks[id].success) =>
             /\ db'.RepoProperty = db.RepoProperty
             /\ db'.value = db.value
             /\ repo'[id].worktree_invalid = repo[id].worktree_invalid
             /\ watched' = watched]_vars

\* C37: when seaf_repo_checkout fails before anything is checked out (no
\* local branch, the commit missing or of another repository, the files not
\* counted), the index file of the repository is what it was.
C37_EarlyFailureKeepsIndex ==
    [][\A id \in OneRepo, fault \in Faults \ {"tree", "write"} :
          (/\ checkout_repo_job(id, fault # "commit", fault # "count",
                                fault # "unpack", WorktreeResult(fault),
                                fault # "index", fault # "update")
           /\ last'.path \in {"no_local_branch", "no_commit", "wrong_repo",
                               "count_failed"}) =>
             index_file'[id] = index_file[id]]_vars

\* C39: at startup a repository of the Repo table is registered only if its
\* bound branch, or with no binding its master branch, and the commit of
\* that branch load; any other repository is not registered, and when
\* load_repo has returned nothing persisted of it is left.
C39_LoadedOrPurged ==
    [][/\ \A id \in RepoIds, commit_ok \in BOOLEAN :
             (load_repo(id, commit_ok) /\ id \in repo_tree') =>
                LET branch == IF db.RepoBranch[id] # NoBranch
                              THEN db.RepoBranch[id] ELSE "master"
                IN branch_db[id][branch] # NoCommit /\ commit_ok
       /\ (remove_repo_ondisk_return /\ purge.caller = "load_repo") =>
             /\ purge.id \notin repo_tree
             /\ purge.id \notin db.Repo
             /\ RestGone(purge.id)]_vars

====
